---- MODULE Spec2Model ----
(***************************************************************************)
(* Real-time coordination layer of the live-streaming backend:             *)
(* NotificationService (src/routes/admin.js, lines 603-1252) together with *)
(* the Socket.IO handlers that src/server.js registers on the same         *)
(* sockets.                                                                *)
(*                                                                         *)
(* Node.js runs one handler at a time; a handler gives up control only at  *)
(* an `await` of database I/O.  Every action below is therefore either the *)
(* synchronous prefix of a handler (from the event up to its first awaited *)
(* database call) or the continuation that runs when one awaited call      *)
(* settles (up to the next awaited database call).  An awaited database    *)
(* call takes effect and settles in one step; calls that are in flight     *)
(* together settle in any order, and each may succeed or fail.             *)
(***************************************************************************)
EXTENDS Integers, Sequences, FiniteSets, Bags, TLC

\* ------------------------------------------------------------------ bounds
NumSockets == 3
NumUsers == 2
NumStreams == 2
MaxTasks == 2
MaxAuths == 2
MaxNotifs == 2
MaxPad == 1
MaxChats == 1
NumViewers == 2
\* The queue capacity the specification gives as its example; the code defines
\* none.
QueueCapacity == 200
MaxSignals == 3
MaxNow == 2
MaxDocs == 2

\* --------------------------------------------------------- program constants
\* setTimeout(..., 30000): the grace window, counted in clock ticks of 15 s.
OfflineDelay == 2
\* message.length > 500
MaxMessageLength == 500

Sockets == 1..NumSockets
Users == {100 + i : i \in 1..NumUsers}
Streams == {200 + i : i \in 1..NumStreams}
Usernames == {"alice", "bob"}

\* User.streamKey of every user, and a key that no user holds.
KeyOf(userId) == 200 + userId
UnknownKey == 300
StreamKeys == {KeyOf(u) : u \in Users} \cup {UnknownKey}
\* User.findOne({ streamKey }): the user's id, 0 for null.
StreamerOf(streamKey) ==
    IF \E u \in Users : KeyOf(u) = streamKey
    THEN CHOOSE u \in Users : KeyOf(u) = streamKey
    ELSE 0

\* Socket.IO room names: `user_<id>`, `stream_<id>` (NotificationService) and
\* `stream-<id>` (server.js).
UserRoom(userId) == <<"user_", userId>>
StreamRoom(streamId) == <<"stream_", streamId>>
LegacyRoom(streamId) == <<"stream-", streamId>>
RoomNames ==
    {UserRoom(u) : u \in Users} \cup {StreamRoom(s) : s \in Streams}
        \cup {LegacyRoom(s) : s \in Streams}

VARIABLES
    sock,               \* socket -> "idle" | "open" | "closed" (ids are never reused)
    ioRooms,            \* Socket.IO adapter: room name -> set of sockets
    userSockets,        \* this.userSockets: socketId -> user info
    connectedUsers,     \* this.connectedUsers: userId -> socketId
    streamRooms,        \* this.streamRooms: streamId -> Set of socketIds
    roomOrder,          \* insertion order of the keys of this.streamRooms
    notificationQueue,  \* this.notificationQueue: userId -> Array of notifications
    tasks,              \* async handlers suspended at an awaited database call
    timers,             \* pending setTimeout callbacks, by disconnecting socket;
                        \* observed: reauth, the user authenticated since it was set
    auths,              \* socket -> number of authenticate events handled
    nextId,             \* notifications handed to sendNotificationToUser from outside
    dbViewerCount,      \* Stream.viewerCount as persisted
    dbOnline,           \* User.isOnline as persisted
    dbBanned,           \* User.isChatBanned as persisted
    isStreamer,         \* User.isStreamer
    followers,          \* User.followers
    lastCountUpdate,    \* observed: last viewer-count-update emitted to stream_<id>
    unannounced,        \* observed: streams with a count update that ended with no broadcast
    writeFailed,        \* observed: some awaited database call has failed
    channelLog,         \* observed: notifications emitted to user_<id>, in order
    offlineLog,         \* observed: isOnline=false transitions since last authenticate
    sinceClose,         \* observed: ticks since a connection of the user last closed
    chatLog,            \* observed: new-message events emitted
    errorLog,           \* observed: error events emitted to the sender of a chat-message
    activeStreams,      \* StreamingService.activeStreams: streamKey -> session data
    dbStreams,          \* Stream documents as persisted, by streamKey
    now,                \* Date.now(), in steps of 500 ms
    signalLog,          \* observed: postPublish / donePublish events handled, in order
    ioEvents,           \* observed: new-live-stream, stream-ended and system-announcement events emitted
    lastJoined          \* observed: stream-joined / viewer-joined pair the last step emitted

vars ==
    <<sock, ioRooms, userSockets, connectedUsers, streamRooms, roomOrder,
      notificationQueue, tasks, timers, auths, nextId, dbViewerCount, dbOnline,
      dbBanned, isStreamer, followers, lastCountUpdate, unannounced, writeFailed,
      channelLog, offlineLog, sinceClose, chatLog, errorLog, activeStreams,
      dbStreams, now, signalLog, ioEvents, lastJoined>>

registryVars == <<userSockets, connectedUsers>>
roomVars == <<streamRooms, roomOrder>>
countVars == <<dbViewerCount, lastCountUpdate, unannounced>>
presenceVars == <<dbOnline, offlineLog, sinceClose>>
notifyVars == <<notificationQueue, channelLog, nextId>>
chatVars == <<chatLog, errorLog, dbBanned>>
userVars == <<isStreamer, followers>>
streamVars == <<activeStreams, dbStreams, now, signalLog, ioEvents>>

\* ------------------------------------------------------------- JS Map helpers
MapHas(m, k) == k \in DOMAIN m
MapSet(m, k, v) == [x \in DOMAIN m \cup {k} |-> IF x = k THEN v ELSE m[x]]
MapDelete(m, k) == [x \in DOMAIN m \ {k} |-> m[x]]
EmptyMap == [x \in {} |-> 0]

\* ------------------------------------------------------------------- tasks
NoTask ==
    [kind |-> "", pc |-> "", sock |-> 0, userId |-> 0, username |-> "",
     streamId |-> 0, viewerCount |-> 0, idx |-> 0,
     text |-> [pre |-> 0, core |-> 0, post |-> 0, mention |-> FALSE],
     banned |-> FALSE,
     reauth |-> FALSE, online |-> FALSE,
     streamKey |-> 0, doc |-> 0, startTime |-> 0, at |-> 0, duration |-> 0]

TaskSet == BagToSet(tasks)
Spawn(t) == tasks (+) SetToBag({t})
Retire(t) == tasks (-) SetToBag({t})
Replace(t, u) == (tasks (-) SetToBag({t})) (+) SetToBag({u})
InFlight == BagCardinality(tasks)
HasSlot == InFlight < MaxTasks

\* The step emitted no stream-joined / viewer-joined pair.
NoJoin ==
    [sock |-> 0, streamId |-> 0, username |-> "", viewerCount |-> 0,
     self |-> FALSE, others |-> {}]

\* --------------------------------------------------------------------- Init
Init ==
    /\ sock = [s \in Sockets |-> "idle"]
    /\ ioRooms = [r \in RoomNames |-> {}]
    /\ userSockets = EmptyMap
    /\ connectedUsers = EmptyMap
    /\ streamRooms = EmptyMap
    /\ roomOrder = <<>>
    /\ notificationQueue = EmptyMap
    /\ tasks = EmptyBag
    /\ timers = EmptyMap
    /\ auths = [s \in Sockets |-> 0]
    /\ nextId = 1
    /\ dbViewerCount = [s \in Streams |-> 0]
    /\ dbOnline = [u \in Users |-> FALSE]
    /\ dbBanned = [u \in Users |-> FALSE]
    /\ isStreamer \in [Users -> BOOLEAN]
    /\ followers \in [Users -> SUBSET Users]
    /\ \A u \in Users : u \notin followers[u]
    /\ lastCountUpdate = [s \in Streams |-> -1]
    /\ unannounced = {}
    /\ writeFailed = FALSE
    /\ channelLog = [u \in Users |-> <<>>]
    /\ offlineLog = [u \in Users |-> 0]
    /\ sinceClose = [u \in Users |-> OfflineDelay]
    /\ chatLog = {}
    /\ errorLog = {}
    /\ activeStreams = EmptyMap
    /\ dbStreams = [k \in StreamKeys |-> <<>>]
    /\ now = 0
    /\ signalLog = <<>>
    /\ ioEvents = {}
    /\ lastJoined = NoJoin

\* ------------------------------------------------------- transport: connect
\* io.on('connection'): a new socket; both modules register their handlers on it.
Connect(s) ==
    /\ sock[s] = "idle"
    /\ sock' = [sock EXCEPT ![s] = "open"]
    /\ lastJoined' = NoJoin
    /\ UNCHANGED <<ioRooms, registryVars, roomVars, notificationQueue, tasks,
                   timers, auths, nextId, countVars, dbOnline, dbBanned,
                   userVars, streamVars, writeFailed, channelLog, offlineLog,
                   sinceClose, chatLog, errorLog>>

\* ------------------------------------------------------ notification values
Notification(type, id, about) == [type |-> type, id |-> id, about |-> about]

\* The room `user_<id>` has a listener: an emit to it reaches somebody.
Heard(userId) == ioRooms[UserRoom(userId)] # {}

\* sendNotificationToUser(userId, n) for every userId of `recipients` (one
\* notification object, distinct recipients): the queue side.
QueueAfterSend(queue, recipients, n) ==
    LET offline == {u \in recipients : ~MapHas(connectedUsers, u)}
    IN [u \in DOMAIN queue \cup offline |->
           IF u \in offline
           THEN Append(IF MapHas(queue, u) THEN queue[u] ELSE <<>>, n)
           ELSE queue[u]]

\* ... and the emit side: io.to(`user_${userId}`).emit('notification', n).
LogAfterSend(log, recipients, n) ==
    [u \in Users |->
        IF u \in recipients /\ MapHas(connectedUsers, u)
        THEN Append(log[u], [n |-> n, via |-> "send", heard |-> Heard(u)])
        ELSE log[u]]

\* sendPendingNotifications(userId): what is emitted, and the queue afterwards.
PendingOf(queue, userId) == IF MapHas(queue, userId) THEN queue[userId] ELSE <<>>

QueueAfterFlush(queue, userId) ==
    IF Len(PendingOf(queue, userId)) > 0 THEN MapDelete(queue, userId) ELSE queue

LogAfterFlush(log, queue, userId) ==
    LET pending == PendingOf(queue, userId)
    IN [log EXCEPT ![userId] =
           @ \o [i \in 1..Len(pending) |->
                   [n |-> pending[i], via |-> "flush", heard |-> Heard(userId)]]]

\* ------------------------------------------------- updateStreamViewerCount
\* The part after `await Stream.findByIdAndUpdate(...)`: on success the count is
\* persisted and viewer-count-update is emitted to stream_<id>; on failure the
\* catch block logs and nothing is emitted.
updateStreamViewerCount(streamId, viewerCount, ok) ==
    /\ dbViewerCount' =
           IF ok THEN [dbViewerCount EXCEPT ![streamId] = viewerCount]
           ELSE dbViewerCount
    /\ lastCountUpdate' =
           IF ok THEN [lastCountUpdate EXCEPT ![streamId] = viewerCount]
           ELSE lastCountUpdate
    /\ unannounced' = IF ok THEN unannounced ELSE unannounced \cup {streamId}
    /\ writeFailed' = (writeFailed \/ ~ok)

\* ------------------------------------------------------------ authenticate
\* socket.on('authenticate'), up to `await User.findByIdAndUpdate(...)`.
Authenticate(s, userId, username) ==
    /\ sock[s] = "open"
    /\ auths[s] < MaxAuths
    /\ HasSlot
    /\ userSockets' = MapSet(userSockets, s, [userId |-> userId, username |-> username])
    /\ connectedUsers' = MapSet(connectedUsers, userId, s)
    /\ ioRooms' = [ioRooms EXCEPT ![UserRoom(userId)] = @ \cup {s}]
    /\ auths' = [auths EXCEPT ![s] = @ + 1]
    /\ offlineLog' = [offlineLog EXCEPT ![userId] = 0]
    /\ tasks' = Spawn([NoTask EXCEPT !.kind = "auth", !.pc = "auth_update",
                                     !.sock = s, !.userId = userId,
                                     !.username = username,
                                     !.online = Heard(userId)])
    /\ timers' = [x \in DOMAIN timers |->
                     IF timers[x].userId = userId
                     THEN [timers[x] EXCEPT !.reauth = TRUE] ELSE timers[x]]
    /\ lastJoined' = NoJoin
    /\ UNCHANGED <<sock, roomVars, notifyVars, countVars, dbOnline, sinceClose,
                   chatVars, userVars, streamVars, writeFailed>>

\* The isOnline write settles.  Success: sendPendingNotifications, emit
\* 'authenticated', then notifyFollowersUserOnline up to `await User.findById`.
\* Failure: the catch block emits 'authentication_error'.
AuthUpdateSettles(t, ok) ==
    /\ t \in TaskSet
    /\ t.pc = "auth_update"
    /\ writeFailed' = (writeFailed \/ ~ok)
    /\ IF ok
       THEN /\ dbOnline' = [dbOnline EXCEPT ![t.userId] = TRUE]
            /\ channelLog' = LogAfterFlush(channelLog, notificationQueue, t.userId)
            /\ notificationQueue' = QueueAfterFlush(notificationQueue, t.userId)
            /\ tasks' = Replace(t, [t EXCEPT !.pc = "auth_find"])
       ELSE /\ tasks' = Retire(t)
            /\ UNCHANGED <<dbOnline, channelLog, notificationQueue>>
    /\ lastJoined' = NoJoin
    /\ UNCHANGED <<sock, ioRooms, registryVars, roomVars, timers, auths, nextId,
                   countVars, offlineLog, sinceClose, chatVars, userVars,
                   streamVars>>

\* notifyFollowersUserOnline after `await User.findById(userId).populate(...)`.
AuthFindSettles(t, ok) ==
    /\ t \in TaskSet
    /\ t.pc = "auth_find"
    /\ writeFailed' = (writeFailed \/ ~ok)
    /\ tasks' = Retire(t)
    /\ LET n == Notification("user_online", 0, t.userId)
           recipients ==
               IF ok /\ isStreamer[t.userId] THEN followers[t.userId] ELSE {}
       IN /\ notificationQueue' = QueueAfterSend(notificationQueue, recipients, n)
          /\ channelLog' = LogAfterSend(channelLog, recipients, n)
    /\ lastJoined' = NoJoin
    /\ UNCHANGED <<sock, ioRooms, registryVars, roomVars, timers, auths, nextId,
                   countVars, presenceVars, chatVars, userVars, streamVars>>

\* A join-stream handler that counts joins instead of members: every accepted
\* join raises the count by one, a repeated one included.
JoinStreamCounting(s, streamId) ==
    /\ sock[s] = "open"
    /\ IF MapHas(userSockets, s)
       THEN /\ HasSlot
            /\ ioRooms' = [ioRooms EXCEPT ![LegacyRoom(streamId)] = @ \cup {s},
                                          ![StreamRoom(streamId)] = @ \cup {s}]
            /\ LET members ==
                       (IF MapHas(streamRooms, streamId)
                        THEN streamRooms[streamId] ELSE {}) \cup {s}
               IN /\ streamRooms' = MapSet(streamRooms, streamId, members)
                  /\ roomOrder' =
                         IF MapHas(streamRooms, streamId) THEN roomOrder
                         ELSE Append(roomOrder, streamId)
                  /\ tasks' = Spawn([NoTask EXCEPT
                                        !.kind = "join", !.pc = "join_update",
                                        !.sock = s,
                                        !.userId = userSockets[s].userId,
                                        !.username = userSockets[s].username,
                                        !.streamId = streamId,
                                        !.viewerCount =
                                            IF MapHas(streamRooms, streamId)
                                            THEN Cardinality(streamRooms[streamId]) + 1
                                            ELSE 1])
       ELSE /\ ioRooms' = [ioRooms EXCEPT ![LegacyRoom(streamId)] = @ \cup {s}]
            /\ UNCHANGED <<roomVars, tasks>>
    /\ lastJoined' = NoJoin
    /\ UNCHANGED <<sock, registryVars, notifyVars, timers, auths, countVars,
                   presenceVars, chatVars, userVars, streamVars, writeFailed>>

\* ------------------------------------------------------------- join-stream
\* Both 'join-stream' handlers: server.js joins `stream-<id>` unconditionally;
\* NotificationService runs up to `await this.updateStreamViewerCount(...)`.
JoinStream(s, streamId) ==
    /\ sock[s] = "open"
    /\ IF MapHas(userSockets, s)
       THEN /\ HasSlot
            /\ ioRooms' = [ioRooms EXCEPT ![LegacyRoom(streamId)] = @ \cup {s},
                                          ![StreamRoom(streamId)] = @ \cup {s}]
            /\ LET members ==
                       (IF MapHas(streamRooms, streamId)
                        THEN streamRooms[streamId] ELSE {}) \cup {s}
               IN /\ streamRooms' = MapSet(streamRooms, streamId, members)
                  /\ roomOrder' =
                         IF MapHas(streamRooms, streamId) THEN roomOrder
                         ELSE Append(roomOrder, streamId)
                  /\ tasks' = Spawn([NoTask EXCEPT
                                        !.kind = "join", !.pc = "join_update",
                                        !.sock = s,
                                        !.userId = userSockets[s].userId,
                                        !.username = userSockets[s].username,
                                        !.streamId = streamId,
                                        !.viewerCount = Cardinality(members)])
       ELSE /\ ioRooms' = [ioRooms EXCEPT ![LegacyRoom(streamId)] = @ \cup {s}]
            /\ UNCHANGED <<roomVars, tasks>>
    /\ lastJoined' = NoJoin
    /\ UNCHANGED <<sock, registryVars, notifyVars, timers, auths, countVars,
                   presenceVars, chatVars, userVars, streamVars, writeFailed>>

\* A join handler that reads the room's size again after the await instead of
\* using the count it took when it added the socket.
JoinUpdateSettlesRecount(t, ok) ==
    /\ t \in TaskSet
    /\ t.pc = "join_update"
    /\ updateStreamViewerCount(t.streamId, t.viewerCount, ok)
    /\ lastJoined' =
           [sock |-> t.sock, streamId |-> t.streamId, username |-> t.username,
            viewerCount |-> Cardinality(streamRooms[t.streamId]),
            self |-> sock[t.sock] = "open",
            others |-> ioRooms[StreamRoom(t.streamId)] \ {t.sock}]
    /\ tasks' = Retire(t)
    /\ UNCHANGED <<sock, ioRooms, registryVars, roomVars, notifyVars, timers,
                   auths, presenceVars, chatVars, userVars, streamVars>>

\* The viewer-count write of a join settles (updateStreamViewerCount catches a
\* failure itself); then viewer-joined goes to the rest of stream_<id> and
\* stream-joined to the socket, both with the count taken before the await.
JoinUpdateSettles(t, ok) ==
    /\ t \in TaskSet
    /\ t.pc = "join_update"
    /\ updateStreamViewerCount(t.streamId, t.viewerCount, ok)
    /\ lastJoined' =
           [sock |-> t.sock, streamId |-> t.streamId, username |-> t.username,
            viewerCount |-> t.viewerCount, self |-> sock[t.sock] = "open",
            others |-> ioRooms[StreamRoom(t.streamId)] \ {t.sock}]
    /\ tasks' = Retire(t)
    /\ UNCHANGED <<sock, ioRooms, registryVars, roomVars, notifyVars, timers,
                   auths, presenceVars, chatVars, userVars, streamVars>>

\* A leave-stream handler that counts leaves instead of members: every leave
\* of a known room lowers the count by one, a non-member's included.
LeaveStreamCounting(s, streamId) ==
    /\ sock[s] = "open"
    /\ MapHas(userSockets, s)
    /\ ioRooms' = [ioRooms EXCEPT ![StreamRoom(streamId)] = @ \ {s}]
    /\ IF MapHas(streamRooms, streamId)
       THEN /\ HasSlot
            /\ LET members == streamRooms[streamId] \ {s}
               IN /\ streamRooms' = MapSet(streamRooms, streamId, members)
                  /\ tasks' = Spawn([NoTask EXCEPT
                                        !.kind = "leave", !.pc = "leave_update",
                                        !.sock = s,
                                        !.userId = userSockets[s].userId,
                                        !.username = userSockets[s].username,
                                        !.streamId = streamId,
                                        !.viewerCount =
                                            Cardinality(streamRooms[streamId]) - 1])
       ELSE UNCHANGED <<streamRooms, tasks>>
    /\ lastJoined' = NoJoin
    /\ UNCHANGED <<sock, registryVars, roomOrder, notifyVars, timers, auths,
                   countVars, presenceVars, chatVars, userVars, streamVars,
                   writeFailed>>

\* ------------------------------------------------------------ leave-stream
LeaveStream(s, streamId) ==
    /\ sock[s] = "open"
    /\ MapHas(userSockets, s)
    /\ ioRooms' = [ioRooms EXCEPT ![StreamRoom(streamId)] = @ \ {s}]
    /\ IF MapHas(streamRooms, streamId)
       THEN /\ HasSlot
            /\ LET members == streamRooms[streamId] \ {s}
               IN /\ streamRooms' = MapSet(streamRooms, streamId, members)
                  /\ tasks' = Spawn([NoTask EXCEPT
                                        !.kind = "leave", !.pc = "leave_update",
                                        !.sock = s,
                                        !.userId = userSockets[s].userId,
                                        !.username = userSockets[s].username,
                                        !.streamId = streamId,
                                        !.viewerCount = Cardinality(members)])
       ELSE UNCHANGED <<streamRooms, tasks>>
    /\ lastJoined' = NoJoin
    /\ UNCHANGED <<sock, registryVars, roomOrder, notifyVars, timers, auths,
                   countVars, presenceVars, chatVars, userVars, streamVars,
                   writeFailed>>

\* The viewer-count write of a leave settles; then viewer-left.
LeaveUpdateSettles(t, ok) ==
    /\ t \in TaskSet
    /\ t.pc = "leave_update"
    /\ updateStreamViewerCount(t.streamId, t.viewerCount, ok)
    /\ tasks' = Retire(t)
    /\ lastJoined' = NoJoin
    /\ UNCHANGED <<sock, ioRooms, registryVars, roomVars, notifyVars, timers,
                   auths, presenceVars, chatVars, userVars, streamVars>>

\* --------------------------------------------------------------- disconnect
\* for (const [streamId, socketSet] of this.streamRooms.entries()): the first
\* room at or after position `from` that still holds the socket, 0 if none.
NextRoomIdx(s, from) ==
    LET hits == {i \in from..Len(roomOrder) : s \in streamRooms[roomOrder[i]]}
    IN IF hits = {} THEN 0 ELSE CHOOSE i \in hits : \A j \in hits : i <= j

\* setTimeout(async () => {...}, 30000)
ScheduleOffline(s, userId, username) ==
    MapSet(timers, s, [userId |-> userId, username |-> username,
                       left |-> OfflineDelay, reauth |-> FALSE])

\* The disconnect loop from position `from`: evict the socket from the next room
\* holding it and suspend at that room's viewer-count write, or, with no room
\* left, schedule the offline check.
EvictFrom(t, from) ==
    LET i == NextRoomIdx(t.sock, from)
    IN IF i = 0
       THEN /\ timers' = ScheduleOffline(t.sock, t.userId, t.username)
            /\ tasks' = IF t \in TaskSet THEN Retire(t) ELSE tasks
            /\ UNCHANGED streamRooms
       ELSE LET streamId == roomOrder[i]
                members == streamRooms[streamId] \ {t.sock}
                next == [t EXCEPT !.pc = "disc_update", !.streamId = streamId,
                                  !.viewerCount = Cardinality(members), !.idx = i]
            IN /\ streamRooms' = [streamRooms EXCEPT ![streamId] = members]
               /\ tasks' = IF t \in TaskSet THEN Replace(t, next) ELSE Spawn(next)
               /\ UNCHANGED timers

\* The transport closes: Socket.IO takes the socket out of all its rooms, then
\* the 'disconnect' handlers run (server.js only logs).
Disconnect(s) ==
    /\ sock[s] = "open"
    /\ sock' = [sock EXCEPT ![s] = "closed"]
    /\ ioRooms' = [r \in RoomNames |-> ioRooms[r] \ {s}]
    /\ sinceClose' = [u \in Users |->
                         IF s \in ioRooms[UserRoom(u)] THEN 0 ELSE sinceClose[u]]
    /\ IF MapHas(userSockets, s)
       THEN /\ connectedUsers' = MapDelete(connectedUsers, userSockets[s].userId)
            /\ userSockets' = MapDelete(userSockets, s)
            /\ NextRoomIdx(s, 1) # 0 => HasSlot
            /\ EvictFrom([NoTask EXCEPT !.kind = "disc", !.sock = s,
                                        !.userId = userSockets[s].userId,
                                        !.username = userSockets[s].username], 1)
       ELSE UNCHANGED <<registryVars, streamRooms, tasks, timers>>
    /\ lastJoined' = NoJoin
    /\ UNCHANGED <<roomOrder, notifyVars, auths, countVars, dbOnline,
                   offlineLog, chatVars, userVars, streamVars, writeFailed>>

\* A disconnect loop that does not survive a failed count write: the failure
\* ends the handler, later rooms keep the connection and no timer is set.
DiscUpdateSettlesAborting(t, ok) ==
    /\ t \in TaskSet
    /\ t.pc = "disc_update"
    /\ updateStreamViewerCount(t.streamId, t.viewerCount, ok)
    /\ IF ok THEN EvictFrom(t, t.idx + 1)
       ELSE /\ tasks' = Retire(t)
            /\ UNCHANGED <<streamRooms, timers>>
    /\ lastJoined' = NoJoin
    /\ UNCHANGED <<sock, ioRooms, registryVars, roomOrder, notifyVars, auths,
                   presenceVars, chatVars, userVars, streamVars>>

\* One viewer-count write of the disconnect loop settles; viewer-left is
\* emitted and the loop goes on.
DiscUpdateSettles(t, ok) ==
    /\ t \in TaskSet
    /\ t.pc = "disc_update"
    /\ updateStreamViewerCount(t.streamId, t.viewerCount, ok)
    /\ EvictFrom(t, t.idx + 1)
    /\ lastJoined' = NoJoin
    /\ UNCHANGED <<sock, ioRooms, registryVars, roomOrder, notifyVars, auths,
                   presenceVars, chatVars, userVars, streamVars>>

\* ------------------------------------------------------------ offline timer
\* The clock advances one tick: pending timers come closer to expiry.  A timer
\* never fires early; it may fire late.
Tick ==
    /\ \/ \E s \in DOMAIN timers : timers[s].left > 0
       \/ \E u \in Users : sinceClose[u] < OfflineDelay
    /\ timers' = [s \in DOMAIN timers |->
                     [timers[s] EXCEPT !.left = IF @ > 0 THEN @ - 1 ELSE 0]]
    /\ sinceClose' = [u \in Users |->
                         IF sinceClose[u] < OfflineDelay THEN sinceClose[u] + 1
                         ELSE OfflineDelay]
    /\ lastJoined' = NoJoin
    /\ UNCHANGED <<sock, ioRooms, registryVars, roomVars, notifyVars, tasks,
                   auths, countVars, dbOnline, offlineLog, chatVars, userVars,
                   streamVars, writeFailed>>

\* The callback of setTimeout runs, up to `await User.findByIdAndUpdate(...)`.
TimerFires(s) ==
    /\ MapHas(timers, s)
    /\ timers[s].left = 0
    /\ timers' = MapDelete(timers, s)
    /\ IF ~MapHas(connectedUsers, timers[s].userId)
       THEN /\ HasSlot
            /\ tasks' = Spawn([NoTask EXCEPT !.kind = "timer", !.pc = "off_update",
                                             !.sock = s,
                                             !.userId = timers[s].userId,
                                             !.username = timers[s].username,
                                             !.reauth = timers[s].reauth,
                                             !.online = Heard(timers[s].userId)])
       ELSE UNCHANGED tasks
    /\ lastJoined' = NoJoin
    /\ UNCHANGED <<sock, ioRooms, registryVars, roomVars, notifyVars, auths,
                   countVars, presenceVars, chatVars, userVars, streamVars,
                   writeFailed>>

\* The isOnline=false write settles; on success notifyFollowersUserOffline runs
\* up to `await User.findById(userId)`.  On failure the callback rejects.
OffUpdateSettles(t, ok) ==
    /\ t \in TaskSet
    /\ t.pc = "off_update"
    /\ writeFailed' = (writeFailed \/ ~ok)
    /\ IF ok
       THEN /\ dbOnline' = [dbOnline EXCEPT ![t.userId] = FALSE]
            /\ offlineLog' = [offlineLog EXCEPT ![t.userId] = @ + 1]
            /\ tasks' = Replace(t, [t EXCEPT !.pc = "off_find"])
       ELSE /\ tasks' = Retire(t)
            /\ UNCHANGED <<dbOnline, offlineLog>>
    /\ lastJoined' = NoJoin
    /\ UNCHANGED <<sock, ioRooms, registryVars, roomVars, notifyVars, timers,
                   auths, countVars, sinceClose, chatVars, userVars,
                   streamVars>>

\* notifyFollowersUserOffline after `await User.findById(userId)`: the
\* recipients are Array.from(this.connectedUsers.keys()).
OffFindSettles(t, ok) ==
    /\ t \in TaskSet
    /\ t.pc = "off_find"
    /\ writeFailed' = (writeFailed \/ ~ok)
    /\ tasks' = Retire(t)
    /\ LET n == Notification("user_offline", 0, t.userId)
           recipients ==
               IF ok /\ isStreamer[t.userId] THEN DOMAIN connectedUsers ELSE {}
       IN /\ notificationQueue' = QueueAfterSend(notificationQueue, recipients, n)
          /\ channelLog' = LogAfterSend(channelLog, recipients, n)
    /\ lastJoined' = NoJoin
    /\ UNCHANGED <<sock, ioRooms, registryVars, roomVars, timers, auths, nextId,
                   countVars, presenceVars, chatVars, userVars, streamVars>>

\* ------------------------------------------------- sendNotificationToUser
\* A caller outside the socket handlers (notifyNewFollower) hands one new
\* notification to sendNotificationToUser(userId, notification).
SendNotification(userId) ==
    /\ nextId' = nextId + 1
    /\ LET n == Notification("new_follower", nextId, 0)
       IN /\ notificationQueue' = QueueAfterSend(notificationQueue, {userId}, n)
          /\ channelLog' = LogAfterSend(channelLog, {userId}, n)
    /\ lastJoined' = NoJoin
    /\ UNCHANGED <<sock, ioRooms, registryVars, roomVars, tasks, timers, auths,
                   countVars, presenceVars, chatVars, userVars, streamVars,
                   writeFailed>>

\* stream.streamer of the Stream document a room is named after: room 200 + i
\* is the room of the first stream document of user 100 + i.
OwnerOf(streamId) == streamId - 100

\* The Stream document with _id streamId, as <<streamKey, position>>.
DocOf(streamId) == <<KeyOf(OwnerOf(streamId)), 1>>

\* Stream.findById(streamId) finds a document.
StreamExists(streamId) ==
    Len(dbStreams[DocOf(streamId)[1]]) >= DocOf(streamId)[2]

\* ------------------------------------------------------------ chat-message
\* Date.now() in milliseconds.
DateNow == now * 500

\* The chat-message events received so far, and the new-message events the
\* NotificationService handler has broadcast so far.
Received == Cardinality({m \in chatLog : m.via = "server.js"})
Broadcast == Cardinality({m \in chatLog : m.via = "NotificationService"})

\* A chat text: `pre` leading whitespace characters, `core` characters from the
\* first to the last non-whitespace one, `post` trailing whitespace characters.
Text(pre, core, post) ==
    [pre |-> pre, core |-> core, post |-> post, mention |-> FALSE]
Length(text) == text.pre + text.core + text.post
Trim(text) == [text EXCEPT !.pre = 0, !.post = 0]
\* The same text with '@streamer' somewhere in its core.
Mentioning(text) == [text EXCEPT !.mention = TRUE]
\* message.includes('@streamer')
Includes(text) == text.mention
PlainTexts ==
    {Text(pre, core, post) :
        pre \in 0..MaxPad, post \in 0..MaxPad,
        core \in {0, MaxMessageLength, MaxMessageLength + 1}}
      \ {Text(pre, 0, post) : pre \in 0..MaxPad, post \in 1..MaxPad}
Texts == PlainTexts \cup {Mentioning(x) : x \in {y \in PlainTexts : y.core > 0}}

ChatError(s, text, message) == [sock |-> s, text |-> text, message |-> message]

\* `!message || message.trim().length === 0`, then `message.length > 500`.
Validate(text) ==
    IF Length(text) = 0 \/ Length(Trim(text)) = 0 THEN "Message cannot be empty"
    ELSE IF Length(text) > MaxMessageLength THEN "Message too long"
    ELSE "ok"

\* Both 'chat-message' handlers: server.js relays the payload to `stream-<id>`
\* (sender excluded); NotificationService validates and runs up to
\* `await User.findById(userInfo.userId)`.
ChatMessage(s, streamId, text) ==
    /\ sock[s] = "open"
    /\ LET banned == MapHas(userSockets, s) /\ dbBanned[userSockets[s].userId]
           relayed == [via |-> "server.js", sock |-> s, streamId |-> streamId,
                       text |-> text, to |-> ioRooms[LegacyRoom(streamId)] \ {s},
                       banned |-> banned, seq |-> Received + 1, order |-> 0,
                       id |-> 0]
       IN /\ chatLog' = chatLog \cup {relayed}
          /\ IF ~MapHas(userSockets, s)
             THEN /\ errorLog' = errorLog \cup {ChatError(s, text, "Not authenticated")}
                  /\ UNCHANGED tasks
             ELSE IF Validate(text) # "ok"
             THEN /\ errorLog' = errorLog \cup {ChatError(s, text, Validate(text))}
                  /\ UNCHANGED tasks
             ELSE /\ HasSlot
                  /\ tasks' = Spawn([NoTask EXCEPT
                                        !.kind = "chat", !.pc = "chat_find",
                                        !.sock = s,
                                        !.userId = userSockets[s].userId,
                                        !.username = userSockets[s].username,
                                        !.streamId = streamId, !.text = text,
                                        !.banned = banned,
                                        !.idx = Received + 1])
                  /\ UNCHANGED errorLog
    /\ lastJoined' = NoJoin
    /\ UNCHANGED <<sock, ioRooms, registryVars, roomVars, notifyVars, timers,
                   auths, countVars, presenceVars, dbBanned, userVars,
                   streamVars, writeFailed>>

\* The user lookup settles: the ban check, then the broadcast of the trimmed
\* text to stream_<id> (saveChatMessage only logs).
ChatFindSettles(t, ok) ==
    /\ t \in TaskSet
    /\ t.pc = "chat_find"
    /\ writeFailed' = (writeFailed \/ ~ok)
    /\ tasks' = IF ok /\ ~dbBanned[t.userId] /\ Includes(t.text)
                THEN Replace(t, [t EXCEPT !.pc = "mention_find"])
                ELSE Retire(t)
    /\ IF ~ok
       THEN /\ errorLog' = errorLog \cup {ChatError(t.sock, t.text, "Failed to send message")}
            /\ UNCHANGED chatLog
       ELSE IF dbBanned[t.userId]
       THEN /\ errorLog' = errorLog \cup {ChatError(t.sock, t.text, "You are banned from chat")}
            /\ UNCHANGED chatLog
       ELSE /\ chatLog' = chatLog \cup
                   {[via |-> "NotificationService", sock |-> t.sock,
                     streamId |-> t.streamId, text |-> Trim(t.text),
                     to |-> ioRooms[StreamRoom(t.streamId)], banned |-> t.banned,
                     seq |-> t.idx, order |-> Broadcast + 1, id |-> DateNow]}
            /\ UNCHANGED errorLog
    /\ lastJoined' = NoJoin
    /\ UNCHANGED <<sock, ioRooms, registryVars, roomVars, notifyVars, timers,
                   auths, countVars, presenceVars, dbBanned, userVars,
                   streamVars>>

\* notifyStreamerMention(streamId, chatMessage), after its awaited
\* Stream.findById: nothing for a failed lookup or an unknown stream, else
\* sendNotificationToUser(stream.streamer, chat_mention).
MentionFindSettles(t, ok) ==
    /\ t \in TaskSet
    /\ t.pc = "mention_find"
    /\ writeFailed' = (writeFailed \/ ~ok)
    /\ tasks' = Retire(t)
    /\ LET n == Notification("chat_mention", 0, t.userId)
           recipients ==
               IF ok /\ StreamExists(t.streamId) THEN {OwnerOf(t.streamId)}
               ELSE {}
       IN /\ notificationQueue' = QueueAfterSend(notificationQueue, recipients, n)
          /\ channelLog' = LogAfterSend(channelLog, recipients, n)
    /\ lastJoined' = NoJoin
    /\ UNCHANGED <<sock, ioRooms, registryVars, roomVars, timers, auths, nextId,
                   countVars, presenceVars, chatVars, userVars, streamVars>>

\* ---------------------------------------------------------- banUserFromChat
\* banUserFromChat(userId, reason), up to `await User.findByIdAndUpdate(...)`.
BanUser(userId) ==
    /\ ~dbBanned[userId]
    /\ HasSlot
    /\ \A t \in TaskSet : ~(t.kind = "ban" /\ t.userId = userId)
    /\ tasks' = Spawn([NoTask EXCEPT !.kind = "ban", !.pc = "ban_update",
                                     !.userId = userId])
    /\ lastJoined' = NoJoin
    /\ UNCHANGED <<sock, ioRooms, registryVars, roomVars, notifyVars, timers,
                   auths, countVars, presenceVars, chatVars, userVars,
                   streamVars, writeFailed>>

\* The isChatBanned write settles; on success 'chat-banned' goes to the socket
\* that connectedUsers holds for the user.
BanUpdateSettles(t, ok) ==
    /\ t \in TaskSet
    /\ t.pc = "ban_update"
    /\ writeFailed' = (writeFailed \/ ~ok)
    /\ tasks' = Retire(t)
    /\ dbBanned' = IF ok THEN [dbBanned EXCEPT ![t.userId] = TRUE] ELSE dbBanned
    /\ lastJoined' = NoJoin
    /\ UNCHANGED <<sock, ioRooms, registryVars, roomVars, notifyVars, timers,
                   auths, countVars, presenceVars, chatLog, errorLog, userVars,
                   streamVars>>

\* -------------------------------------------------------- StreamingService
\* A Stream document as StreamingService reads and writes it; -1 is "not set".
NewStream == [isLive |-> FALSE, startedAt |-> -1, endedAt |-> -1, duration |-> 0]


\* Math.floor((Date.now() - streamData.startTime) / 1000)
Duration(startTime) == (DateNow - startTime) \div 1000

\* Stream.findOne({ streamKey, isLive: false }): the documents that match.
NotLiveDocs(streamKey) ==
    {i \in 1..Len(dbStreams[streamKey]) : ~dbStreams[streamKey][i].isLive}

Signal(kind, streamKey) ==
    [kind |-> kind, key |-> streamKey, active |-> MapHas(activeStreams, streamKey)]

\* Time passes.
Advance ==
    /\ now < MaxNow
    /\ now' = now + 1
    /\ lastJoined' = NoJoin
    /\ UNCHANGED <<sock, ioRooms, registryVars, roomVars, notifyVars, tasks,
                   timers, auths, countVars, presenceVars, chatVars, userVars, ioEvents,
                   activeStreams, dbStreams, signalLog, writeFailed>>

\* nms.on('postPublish'): handleStreamStart(streamKey, id) up to
\* `await User.findOne({ streamKey })`.
StreamStart(streamKey) ==
    /\ Len(signalLog) < MaxSignals
    /\ HasSlot
    /\ signalLog' = Append(signalLog, Signal("start", streamKey))
    /\ tasks' = Spawn([NoTask EXCEPT !.kind = "start", !.pc = "start_user",
                                     !.streamKey = streamKey])
    /\ lastJoined' = NoJoin
    /\ UNCHANGED <<sock, ioRooms, registryVars, roomVars, notifyVars, timers,
                   auths, countVars, presenceVars, chatVars, userVars, ioEvents,
                   activeStreams, dbStreams, now, writeFailed>>

\* A start handler without the `if (!user) return` test.
StartUserSettlesUnchecked(t, ok) ==
    /\ t \in TaskSet
    /\ t.pc = "start_user"
    /\ writeFailed' = (writeFailed \/ ~ok)
    /\ tasks' =
           IF ok
           THEN Replace(t, [t EXCEPT !.pc = "start_find",
                                     !.userId = StreamerOf(t.streamKey)])
           ELSE Retire(t)
    /\ lastJoined' = NoJoin
    /\ UNCHANGED <<sock, ioRooms, registryVars, roomVars, notifyVars, timers,
                   auths, countVars, presenceVars, chatVars, userVars,
                   streamVars>>

\* The user lookup settles: `if (!user) return`, else on to
\* `await Stream.findOne({ streamKey, isLive: false })`.  A rejected lookup
\* ends in the catch block, which logs.
StartUserSettles(t, ok) ==
    /\ t \in TaskSet
    /\ t.pc = "start_user"
    /\ writeFailed' = (writeFailed \/ ~ok)
    /\ tasks' =
           IF ok /\ StreamerOf(t.streamKey) # 0
           THEN Replace(t, [t EXCEPT !.pc = "start_find",
                                     !.userId = StreamerOf(t.streamKey)])
           ELSE Retire(t)
    /\ lastJoined' = NoJoin
    /\ UNCHANGED <<sock, ioRooms, registryVars, roomVars, notifyVars, timers,
                   auths, countVars, presenceVars, chatVars, userVars,
                   streamVars>>

\* The stream lookup settles with one matching document or, with none, a
\* `new Stream(...)` (doc 0); isLive and startedAt are set on the document in
\* memory, then `await stream.save()`.
StartFindSettles(t, ok) ==
    /\ t \in TaskSet
    /\ t.pc = "start_find"
    /\ writeFailed' = (writeFailed \/ ~ok)
    /\ IF ~ok THEN tasks' = Retire(t)
       ELSE IF NotLiveDocs(t.streamKey) = {}
       THEN tasks' = Replace(t, [t EXCEPT !.pc = "start_save", !.doc = 0,
                                          !.at = DateNow])
       ELSE \E i \in NotLiveDocs(t.streamKey) :
               tasks' = Replace(t, [t EXCEPT !.pc = "start_save", !.doc = i,
                                             !.at = DateNow])
    /\ lastJoined' = NoJoin
    /\ UNCHANGED <<sock, ioRooms, registryVars, roomVars, notifyVars, timers,
                   auths, countVars, presenceVars, chatVars, userVars,
                   streamVars>>

\* stream.save() settles: the document is inserted or updated, then
\* this.activeStreams.set(streamKey, {sessionId, streamId, startTime}).
StartSaveSettles(t, ok) ==
    /\ t \in TaskSet
    /\ t.pc = "start_save"
    /\ t.doc = 0 /\ ok => Len(dbStreams[t.streamKey]) < MaxDocs
    /\ writeFailed' = (writeFailed \/ ~ok)
    /\ tasks' = Retire(t)
    /\ IF ok
       THEN LET docs == dbStreams[t.streamKey]
                live == [isLive |-> TRUE, startedAt |-> t.at]
                i == IF t.doc = 0 THEN Len(docs) + 1 ELSE t.doc
            IN /\ dbStreams' =
                      [dbStreams EXCEPT ![t.streamKey] =
                          IF t.doc = 0
                          THEN Append(docs, [NewStream EXCEPT
                                                !.isLive = TRUE,
                                                !.startedAt = t.at])
                          ELSE [docs EXCEPT ![i].isLive = TRUE,
                                            ![i].startedAt = t.at]]
               /\ activeStreams' =
                      MapSet(activeStreams, t.streamKey,
                             [streamId |-> <<t.streamKey, i>>,
                              startTime |-> DateNow])
       ELSE UNCHANGED <<dbStreams, activeStreams>>
    /\ lastJoined' = NoJoin
    /\ UNCHANGED <<sock, ioRooms, registryVars, roomVars, notifyVars, timers,
                   auths, countVars, presenceVars, chatVars, userVars, ioEvents, now,
                   signalLog>>

\* A stop handler without the `if (!streamData) return` test: with no session
\* it goes on to the lookup with no document to find.
StreamEndUnguarded(streamKey) ==
    /\ Len(signalLog) < MaxSignals
    /\ HasSlot
    /\ signalLog' = Append(signalLog, Signal("stop", streamKey))
    /\ tasks' =
           Spawn([NoTask EXCEPT
                     !.kind = "end", !.pc = "end_find", !.streamKey = streamKey,
                     !.doc = IF MapHas(activeStreams, streamKey)
                             THEN activeStreams[streamKey].streamId[2] ELSE 0,
                     !.startTime = IF MapHas(activeStreams, streamKey)
                                   THEN activeStreams[streamKey].startTime
                                   ELSE 0])
    /\ lastJoined' = NoJoin
    /\ UNCHANGED <<sock, ioRooms, registryVars, roomVars, notifyVars, timers,
                   auths, countVars, presenceVars, chatVars, userVars, ioEvents,
                   activeStreams, dbStreams, now, writeFailed>>

\* nms.on('donePublish'): handleStreamEnd(streamKey) up to
\* `await Stream.findById(streamData.streamId)`; `if (!streamData) return`.
StreamEnd(streamKey) ==
    /\ Len(signalLog) < MaxSignals
    /\ signalLog' = Append(signalLog, Signal("stop", streamKey))
    /\ IF MapHas(activeStreams, streamKey)
       THEN /\ HasSlot
            /\ tasks' = Spawn([NoTask EXCEPT
                                  !.kind = "end", !.pc = "end_find",
                                  !.streamKey = streamKey,
                                  !.doc = activeStreams[streamKey].streamId[2],
                                  !.startTime = activeStreams[streamKey].startTime])
       ELSE UNCHANGED tasks
    /\ lastJoined' = NoJoin
    /\ UNCHANGED <<sock, ioRooms, registryVars, roomVars, notifyVars, timers,
                   auths, countVars, presenceVars, chatVars, userVars, ioEvents,
                   activeStreams, dbStreams, now, writeFailed>>

\* Stream.findById settles: `if (stream)` sets isLive, endedAt and duration on
\* the document in memory, then `await stream.save()`; with no document the
\* handler goes on to this.activeStreams.delete(streamKey).
EndFindSettles(t, ok) ==
    /\ t \in TaskSet
    /\ t.pc = "end_find"
    /\ writeFailed' = (writeFailed \/ ~ok)
    /\ IF ~ok
       THEN /\ tasks' = Retire(t)
            /\ UNCHANGED activeStreams
       ELSE IF t.doc \in 1..Len(dbStreams[t.streamKey])
       THEN /\ tasks' = Replace(t, [t EXCEPT !.pc = "end_save", !.at = DateNow,
                                             !.duration = Duration(t.startTime)])
            /\ UNCHANGED activeStreams
       ELSE /\ tasks' = Retire(t)
            /\ activeStreams' = MapDelete(activeStreams, t.streamKey)
    /\ lastJoined' = NoJoin
    /\ UNCHANGED <<sock, ioRooms, registryVars, roomVars, notifyVars, timers,
                   auths, countVars, presenceVars, chatVars, userVars, ioEvents,
                   dbStreams, now, signalLog>>

\* Variant of EndSaveSettles that also empties the rooms.
EndSaveSettlesEvicting(t, ok) ==
    /\ t \in TaskSet
    /\ t.pc = "end_save"
    /\ writeFailed' = (writeFailed \/ ~ok)
    /\ tasks' = Retire(t)
    /\ IF ok
       THEN /\ dbStreams' =
                   [dbStreams EXCEPT ![t.streamKey][t.doc] =
                       [@ EXCEPT !.isLive = FALSE, !.endedAt = t.at,
                                 !.duration = t.duration]]
            /\ activeStreams' = MapDelete(activeStreams, t.streamKey)
            /\ streamRooms' = [r \in DOMAIN streamRooms |-> {}]
       ELSE UNCHANGED <<dbStreams, activeStreams, streamRooms>>
    /\ lastJoined' = NoJoin
    /\ UNCHANGED <<sock, ioRooms, registryVars, roomOrder, notifyVars, timers,
                   auths, countVars, presenceVars, chatVars, userVars, ioEvents, now,
                   signalLog>>

\* stream.save() settles: the document is updated, then
\* this.activeStreams.delete(streamKey) and the HLS cleanup.  A rejected save
\* ends in the catch block and the session stays.
EndSaveSettles(t, ok) ==
    /\ t \in TaskSet
    /\ t.pc = "end_save"
    /\ writeFailed' = (writeFailed \/ ~ok)
    /\ tasks' = Retire(t)
    /\ IF ok
       THEN /\ dbStreams' =
                   [dbStreams EXCEPT ![t.streamKey][t.doc] =
                       [@ EXCEPT !.isLive = FALSE, !.endedAt = t.at,
                                 !.duration = t.duration]]
            /\ activeStreams' = MapDelete(activeStreams, t.streamKey)
       ELSE UNCHANGED <<dbStreams, activeStreams>>
    /\ lastJoined' = NoJoin
    /\ UNCHANGED <<sock, ioRooms, registryVars, roomVars, notifyVars, timers,
                   auths, countVars, presenceVars, chatVars, userVars, ioEvents, now,
                   signalLog>>

\* POST /:streamId/end: requireStreamOwner has loaded the document of the
\* owner's stream; a document that is not live is answered with 400, otherwise
\* isLive, endedAt and duration are set on it and the handler awaits
\* req.stream.save().  activeStreams is not consulted.
EndStreamRoute(streamKey, doc) ==
    /\ doc \in 1..Len(dbStreams[streamKey])
    /\ dbStreams[streamKey][doc].isLive
    /\ HasSlot
    /\ tasks' = Spawn([NoTask EXCEPT
                          !.kind = "route", !.pc = "route_save",
                          !.streamKey = streamKey, !.doc = doc, !.at = DateNow,
                          !.duration =
                              IF dbStreams[streamKey][doc].startedAt >= 0
                              THEN (DateNow - dbStreams[streamKey][doc].startedAt)
                                       \div 1000
                              ELSE dbStreams[streamKey][doc].duration])
    /\ lastJoined' = NoJoin
    /\ UNCHANGED <<sock, ioRooms, registryVars, roomVars, notifyVars, timers,
                   auths, countVars, presenceVars, chatVars, userVars,
                   streamVars, writeFailed>>

\* req.stream.save() of the end route settles: the modified fields are
\* written; a rejected save is answered with 500.
RouteSaveSettles(t, ok) ==
    /\ t \in TaskSet
    /\ t.pc = "route_save"
    /\ writeFailed' = (writeFailed \/ ~ok)
    /\ tasks' = Retire(t)
    /\ IF ok
       THEN dbStreams' =
                [dbStreams EXCEPT ![t.streamKey][t.doc] =
                    [@ EXCEPT !.isLive = FALSE, !.endedAt = t.at,
                              !.duration = t.duration]]
       ELSE UNCHANGED dbStreams
    /\ lastJoined' = NoJoin
    /\ UNCHANGED <<sock, ioRooms, registryVars, roomVars, notifyVars, timers,
                   auths, countVars, presenceVars, chatVars, userVars, ioEvents,
                   activeStreams, now, signalLog>>

\* ----------------------------------------- notifyStreamStarted / notifyStreamEnded
\* notifyStreamStarted(streamId, streamerId, streamTitle), up to
\* `await User.findById(streamerId).populate('followers')`.  Nothing in
\* StreamingService or in the socket handlers calls it.
NotifyStreamStarted(streamKey, doc) ==
    /\ StreamerOf(streamKey) # 0
    /\ doc \in 1..Len(dbStreams[streamKey])
    /\ HasSlot
    /\ tasks' = Spawn([NoTask EXCEPT !.kind = "started", !.pc = "started_find",
                                     !.userId = StreamerOf(streamKey),
                                     !.streamKey = streamKey, !.doc = doc])
    /\ lastJoined' = NoJoin
    /\ UNCHANGED <<sock, ioRooms, registryVars, roomVars, notifyVars, timers,
                   auths, countVars, presenceVars, chatVars, userVars,
                   streamVars, writeFailed>>

\* The streamer lookup settles: one stream_started notification per follower
\* through sendNotificationToUser, then io.emit('new-live-stream').
StartedFindSettles(t, ok) ==
    /\ t \in TaskSet
    /\ t.pc = "started_find"
    /\ writeFailed' = (writeFailed \/ ~ok)
    /\ tasks' = Retire(t)
    /\ LET n == Notification("stream_started", 0, t.userId)
           recipients == IF ok THEN followers[t.userId] ELSE {}
       IN /\ notificationQueue' = QueueAfterSend(notificationQueue, recipients, n)
          /\ channelLog' = LogAfterSend(channelLog, recipients, n)
    /\ ioEvents' =
           IF ok
           THEN ioEvents \cup {[event |-> "new-live-stream",
                                 streamId |-> <<t.streamKey, t.doc>>]}
           ELSE ioEvents
    /\ lastJoined' = NoJoin
    /\ UNCHANGED <<sock, ioRooms, registryVars, roomVars, timers, auths, nextId,
                   countVars, presenceVars, chatVars, userVars, activeStreams,
                   dbStreams, now, signalLog>>

\* notifyStreamEnded(streamId, streamerId, streamTitle, duration): stream-ended
\* to stream_<id>.  Nothing in StreamingService or in the socket handlers
\* calls it.
NotifyStreamEnded(streamKey, doc) ==
    /\ doc \in 1..Len(dbStreams[streamKey])
    /\ [event |-> "stream-ended", streamId |-> <<streamKey, doc>>] \notin ioEvents
    /\ ioEvents' = ioEvents \cup {[event |-> "stream-ended",
                                    streamId |-> <<streamKey, doc>>]}
    /\ lastJoined' = NoJoin
    /\ UNCHANGED <<sock, ioRooms, registryVars, roomVars, notifyVars, tasks,
                   timers, auths, countVars, presenceVars, chatVars, userVars,
                   activeStreams, dbStreams, now, signalLog, writeFailed>>

\* ------------------------------------------------------------ specifications
Next ==
    \/ \E s \in Sockets : Connect(s)
    \/ \E s \in Sockets, u \in Users, n \in Usernames : Authenticate(s, u, n)
    \/ \E s \in Sockets, r \in Streams : JoinStream(s, r)
    \/ \E s \in Sockets, r \in Streams : LeaveStream(s, r)
    \/ \E s \in Sockets : Disconnect(s)
    \/ Tick
    \/ \E s \in Sockets : TimerFires(s)
    \/ \E u \in Users : nextId <= MaxNotifs /\ SendNotification(u)
    \/ \E s \in Sockets, r \in Streams, x \in Texts :
          Received < MaxChats /\ ChatMessage(s, r, x)
    \/ \E u \in Users : BanUser(u)
    \/ \E t \in TaskSet, ok \in BOOLEAN : AuthUpdateSettles(t, ok)
    \/ \E t \in TaskSet, ok \in BOOLEAN : AuthFindSettles(t, ok)
    \/ \E t \in TaskSet, ok \in BOOLEAN : JoinUpdateSettles(t, ok)
    \/ \E t \in TaskSet, ok \in BOOLEAN : LeaveUpdateSettles(t, ok)
    \/ \E t \in TaskSet, ok \in BOOLEAN : DiscUpdateSettles(t, ok)
    \/ \E t \in TaskSet, ok \in BOOLEAN : OffUpdateSettles(t, ok)
    \/ \E t \in TaskSet, ok \in BOOLEAN : OffFindSettles(t, ok)
    \/ \E t \in TaskSet, ok \in BOOLEAN : ChatFindSettles(t, ok)
    \/ \E t \in TaskSet, ok \in BOOLEAN : MentionFindSettles(t, ok)
    \/ \E t \in TaskSet, ok \in BOOLEAN : BanUpdateSettles(t, ok)
    \/ Advance
    \/ \E k \in StreamKeys : StreamStart(k)
    \/ \E k \in StreamKeys : StreamEnd(k)
    \/ \E t \in TaskSet, ok \in BOOLEAN : StartUserSettles(t, ok)
    \/ \E t \in TaskSet, ok \in BOOLEAN : StartFindSettles(t, ok)
    \/ \E t \in TaskSet, ok \in BOOLEAN : StartSaveSettles(t, ok)
    \/ \E t \in TaskSet, ok \in BOOLEAN : EndFindSettles(t, ok)
    \/ \E t \in TaskSet, ok \in BOOLEAN : EndSaveSettles(t, ok)
    \/ \E k \in StreamKeys, i \in 1..MaxDocs : EndStreamRoute(k, i)
    \/ \E t \in TaskSet, ok \in BOOLEAN : RouteSaveSettles(t, ok)
    \/ \E k \in StreamKeys, i \in 1..MaxDocs : NotifyStreamStarted(k, i)
    \/ \E k \in StreamKeys, i \in 1..MaxDocs : NotifyStreamEnded(k, i)
    \/ \E t \in TaskSet, ok \in BOOLEAN : StartedFindSettles(t, ok)

Spec == Init /\ [][Next]_vars

\* ---------------------------------------------------------------- SpecRooms
\* Rooms and viewer counts.  The first NumViewers sockets have connected and
\* authenticated (socket i as user UserOf(i)), every handler has finished and
\* nobody streams or follows: the state Init reaches by Connect, Authenticate,
\* AuthUpdateSettles and AuthFindSettles for each of them in turn.
Viewers == 1..NumViewers
FirstStream == 200 + 1
UserOf(s) == 100 + ((s - 1) % NumUsers) + 1
NameOf(s) == IF s % 2 = 1 THEN "alice" ELSE "bob"
LastSocketOf(u) ==
    CHOOSE s \in Viewers : UserOf(s) = u /\ \A x \in Viewers : UserOf(x) = u => x <= s

InitRooms ==
    /\ sock = [s \in Sockets |-> IF s \in Viewers THEN "open" ELSE "idle"]
    /\ ioRooms = [r \in RoomNames |->
                     IF r[1] = "user_" THEN {s \in Viewers : UserOf(s) = r[2]}
                     ELSE {}]
    /\ userSockets = [s \in Viewers |-> [userId |-> UserOf(s), username |-> NameOf(s)]]
    /\ connectedUsers = [u \in {UserOf(s) : s \in Viewers} |-> LastSocketOf(u)]
    /\ streamRooms = EmptyMap
    /\ roomOrder = <<>>
    /\ notificationQueue = EmptyMap
    /\ tasks = EmptyBag
    /\ timers = EmptyMap
    /\ auths = [s \in Sockets |-> IF s \in Viewers THEN 1 ELSE 0]
    /\ nextId = 1
    /\ dbViewerCount = [s \in Streams |-> 0]
    /\ dbOnline = [u \in Users |-> u \in {UserOf(s) : s \in Viewers}]
    /\ dbBanned = [u \in Users |-> FALSE]
    /\ isStreamer = [u \in Users |-> FALSE]
    /\ followers = [u \in Users |-> {}]
    /\ lastCountUpdate = [s \in Streams |-> -1]
    /\ unannounced = {}
    /\ writeFailed = FALSE
    /\ channelLog = [u \in Users |-> <<>>]
    /\ offlineLog = [u \in Users |-> 0]
    /\ sinceClose = [u \in Users |-> OfflineDelay]
    /\ chatLog = {}
    /\ errorLog = {}
    /\ activeStreams = EmptyMap
    /\ dbStreams = [k \in StreamKeys |-> <<>>]
    /\ now = 0
    /\ signalLog = <<>>
    /\ ioEvents = {}
    /\ lastJoined = NoJoin

NextRooms ==
    \/ \E s \in Sockets, r \in Streams : JoinStream(s, r)
    \/ \E s \in Sockets, r \in Streams : LeaveStream(s, r)
    \/ \E s \in Sockets : Disconnect(s)
    \/ \E t \in TaskSet, ok \in BOOLEAN : JoinUpdateSettles(t, ok)
    \/ \E t \in TaskSet, ok \in BOOLEAN : LeaveUpdateSettles(t, ok)
    \/ \E t \in TaskSet, ok \in BOOLEAN : DiscUpdateSettles(t, ok)

SpecRooms == InitRooms /\ [][NextRooms]_vars

\* All join-stream, leave-stream and disconnect handlers have finished.
RoomsSettled == \A t \in TaskSet : t.kind \notin {"join", "leave", "disc"}

\* C1: once all join-stream, leave-stream and disconnect handlers have finished,
\* the last viewer-count-update broadcast for every room S carries the size of
\* S's member set.  Stated for the runs in which every persistence write
\* succeeded, so that each handler did broadcast: the interleavings of the
\* awaited writes alone decide it.
LastBroadcastIsMemberCount ==
    (RoomsSettled /\ ~writeFailed) =>
        \A r \in DOMAIN streamRooms :
            lastCountUpdate[r] = Cardinality(streamRooms[r])

\* C2: once all handlers have finished and no persistence write has failed, the
\* persisted viewerCount of every room S equals the size of S's member set.
PersistedCountIsMemberCount ==
    (RoomsSettled /\ ~writeFailed) =>
        \A r \in DOMAIN streamRooms :
            dbViewerCount[r] = Cardinality(streamRooms[r])

\* C3: every membership change of a room S produces a viewer-count-update
\* broadcast to S with the new count, whether the persistence write is still
\* in flight or has failed: a handler suspended at the write has already
\* broadcast its count, and no update ends without a broadcast.
BroadcastIndependentOfWrite ==
    /\ unannounced = {}
    /\ \A t \in TaskSet :
          t.pc \in {"join_update", "leave_update", "disc_update"} =>
              lastCountUpdate[t.streamId] = t.viewerCount

\* ----------------------------------------------------------------- SpecJoin
\* Joins, leaves and disconnects of the viewers of InitRooms on one room.
NextJoin ==
    \/ \E s \in Sockets : JoinStream(s, FirstStream)
    \/ \E s \in Sockets : LeaveStream(s, FirstStream)
    \/ \E s \in Sockets : Disconnect(s)
    \/ \E t \in TaskSet, ok \in BOOLEAN : JoinUpdateSettles(t, ok)
    \/ \E t \in TaskSet, ok \in BOOLEAN : LeaveUpdateSettles(t, ok)
    \/ \E t \in TaskSet, ok \in BOOLEAN : DiscUpdateSettles(t, ok)

SpecJoin == InitRooms /\ [][NextJoin]_vars

\* The step starts a join-stream handler of an authenticated connection: task
\* t is new among the suspended handlers.
JoinStarts(t) ==
    /\ t.pc = "join_update"
    /\ CopiesIn(t, tasks') > CopiesIn(t, tasks)

\* The step resumes join-stream handler t after its awaited write.
JoinResumes(t) ==
    /\ t.pc = "join_update"
    /\ CopiesIn(t, tasks') < CopiesIn(t, tasks)

\* C11: when an authenticated connection c of user B joins room S, the count
\* the handler takes is the size of S's member set right after c was added
\* (1 for the first viewer of an empty room); when the handler resumes, c (if
\* still open) is sent stream-joined with that count, and every other open
\* member of S is sent viewer-joined with B's username and the same count.
JoinedCarriesCountAfterAdd ==
    [][/\ \A t \in BagToSet(tasks') :
             JoinStarts(t) =>
                 /\ t.sock \in streamRooms'[t.streamId]
                 /\ t.viewerCount = Cardinality(streamRooms'[t.streamId])
                 /\ t.viewerCount >= 1
                 /\ t.username = userSockets[t.sock].username
       /\ \A t \in TaskSet :
             JoinResumes(t) =>
                 /\ lastJoined'.sock = t.sock
                 /\ lastJoined'.streamId = t.streamId
                 /\ lastJoined'.self = (sock[t.sock] = "open")
                 /\ lastJoined'.viewerCount = t.viewerCount
                 /\ lastJoined'.username = t.username
                 /\ lastJoined'.others =
                        {x \in streamRooms[t.streamId] \ {t.sock} :
                            sock[x] = "open"}]_vars

\* A second viewer joined an occupied room: it got stream-joined with count 2
\* and the first viewer got viewer-joined.
SecondViewerJoined ==
    /\ lastJoined.self
    /\ lastJoined.viewerCount = 2
    /\ lastJoined.others # {}

\* --------------------------------------------------------------- SpecNotify
\* Queued notifications across authenticate and disconnect, on the first
\* NumViewers sockets.  Nobody streams, so the only notifications are the ones
\* handed in from outside.
InitNotify ==
    /\ Init
    /\ isStreamer = [u \in Users |-> FALSE]
    /\ followers = [u \in Users |-> {}]

NextNotify ==
    \/ \E s \in Viewers : Connect(s)
    \/ \E s \in Viewers, u \in Users : Authenticate(s, u, NameOf(s))
    \/ \E s \in Viewers : Disconnect(s)
    \/ \E u \in Users : nextId <= MaxNotifs /\ SendNotification(u)
    \/ \E t \in TaskSet, ok \in BOOLEAN : AuthUpdateSettles(t, ok)
    \/ \E t \in TaskSet, ok \in BOOLEAN : AuthFindSettles(t, ok)

SpecNotify == InitNotify /\ [][NextNotify]_vars

\* The step in which an authenticate handler of the user gets past its awaited
\* isOnline write (and, with that, past sendPendingNotifications or into the
\* catch block).
AuthenticateResumes(userId) ==
    \E t \in TaskSet :
        /\ t.pc = "auth_update"
        /\ t.userId = userId
        /\ CopiesIn(t, tasks') < CopiesIn(t, tasks)

\* C4: the notifications queued for U are emitted on U's personal channel at
\* U's next authenticate, in enqueue order, each once, and U's queue is empty
\* afterwards.
QueueFlushedAtAuthenticate ==
    [][\A u \in Users :
          AuthenticateResumes(u) =>
              LET pending == PendingOf(notificationQueue, u)
                  before == Len(channelLog[u])
              IN /\ PendingOf(notificationQueue', u) = <<>>
                 /\ Len(channelLog'[u]) = before + Len(pending)
                 /\ \A i \in 1..Len(pending) :
                       channelLog'[u][before + i].n = pending[i]]_vars

\* C5: every notification is emitted on U's personal channel at most once, and
\* one that left U's queue was emitted while a connection of U was joined to
\* that channel.
NoNotificationLostOrRepeated ==
    \A u \in Users :
        /\ \A i \in 1..Len(channelLog[u]) :
              channelLog[u][i].via = "flush" => channelLog[u][i].heard
        /\ \A i, j \in 1..Len(channelLog[u]) :
              channelLog[u][i].n = channelLog[u][j].n => i = j

\* The open sockets that authenticated as the user: the members of user_<id>.
ConnectionsOf(userId) == ioRooms[UserRoom(userId)]

\* C18: the userId associated with a connection is set once: a later
\* authenticate on the same connection never replaces it.
UserIdIsSetOnce ==
    [][\A s \in DOMAIN userSockets :
          s \in DOMAIN userSockets' =>
              userSockets'[s].userId = userSockets[s].userId]_vars

\* C19: sendNotificationToUser(U, n) appends n to U's queue only when U has no
\* open authenticated connection, also when U owns several connections and
\* one of them has closed.
QueuedOnlyWithoutConnection ==
    [][nextId' # nextId =>
          \A u \in Users :
              Len(PendingOf(notificationQueue', u)) >
                      Len(PendingOf(notificationQueue, u))
                  => ConnectionsOf(u) = {}]_vars

\* ---------------------------------------------------------------- SpecQueue
\* Notifications handed in, one after the other, for a user who never
\* connects.
NextQueue ==
    \E u \in {UserOf(1)} : nextId <= QueueCapacity + 1 /\ SendNotification(u)

SpecQueue == InitNotify /\ [][NextQueue]_vars

\* C20: the notification queue of every user holds at most the capacity.
QueueWithinCapacity ==
    \A u \in Users : Len(PendingOf(notificationQueue, u)) <= QueueCapacity

\* ------------------------------------------------------------- SpecPresence
\* Presence across disconnect / reconnect cycles.  The first user streams and
\* is followed by every other user; each socket authenticates once.
InitPresence ==
    /\ Init
    /\ isStreamer = [u \in Users |-> u = UserOf(1)]
    /\ followers = [u \in Users |-> IF u = UserOf(1) THEN Users \ {u} ELSE {}]

NextPresence ==
    \/ \E s \in Sockets : Connect(s)
    \/ \E s \in Sockets, u \in Users :
          auths[s] = 0 /\ Authenticate(s, u, NameOf(s))
    \/ \E s \in Sockets : Disconnect(s)
    \/ Tick
    \/ \E s \in Sockets : TimerFires(s)
    \/ \E t \in TaskSet, ok \in BOOLEAN : AuthUpdateSettles(t, ok)
    \/ \E t \in TaskSet, ok \in BOOLEAN : AuthFindSettles(t, ok)
    \/ \E t \in TaskSet, ok \in BOOLEAN : OffUpdateSettles(t, ok)
    \/ \E t \in TaskSet, ok \in BOOLEAN : OffFindSettles(t, ok)

SpecPresence == InitPresence /\ [][NextPresence]_vars

\* C6: after U's last authenticate, whatever disconnect / reconnect cycles
\* came before, U is transitioned to offline once, not more.
OfflineAtMostOncePerDeparture == \A u \in Users : offlineLog[u] <= 1

\* C7: a timer whose user authenticated again after the disconnect that set it,
\* and who is connected when it fires, produces no isOnline=false write (and
\* so no user_offline notification).
ReconnectedTimerIsSilent ==
    \A t \in TaskSet : t.kind = "timer" => ~(t.reauth /\ t.online)

\* The step is an offline transition of the user: the isOnline=false write, or
\* a user_offline notification about the user handed to sendNotificationToUser.
OfflineEvent(userId) ==
    \/ offlineLog'[userId] > offlineLog[userId]
    \/ \E t \in TaskSet :
          /\ t.pc = "off_find"
          /\ t.userId = userId
          /\ CopiesIn(t, tasks') < CopiesIn(t, tasks)
          /\ <<notificationQueue, channelLog>>' # <<notificationQueue, channelLog>>

\* C8: an offline transition or user_offline notification for U happens only
\* when U has no open authenticated connection, and not before a full grace
\* window has passed since a connection of U last closed.
OfflineOnlyWhenGone ==
    [][\A u \in Users :
          OfflineEvent(u) =>
              (ConnectionsOf(u) = {} /\ sinceClose[u] >= OfflineDelay)]_vars

\* ----------------------------------------------------------------- SpecChat
\* Chat with bans.  The viewers of InitRooms have each joined the first stream
\* and those handlers have finished (JoinStream and JoinUpdateSettles for each
\* of them in turn, from InitRooms); further sockets may connect.
InitChat ==
    /\ sock = [s \in Sockets |-> IF s \in Viewers THEN "open" ELSE "idle"]
    /\ ioRooms = [r \in RoomNames |->
                     IF r[1] = "user_" THEN {s \in Viewers : UserOf(s) = r[2]}
                     ELSE IF r[2] = FirstStream THEN Viewers ELSE {}]
    /\ userSockets = [s \in Viewers |-> [userId |-> UserOf(s), username |-> NameOf(s)]]
    /\ connectedUsers = [u \in {UserOf(s) : s \in Viewers} |-> LastSocketOf(u)]
    /\ streamRooms = [r \in {FirstStream} |-> Viewers]
    /\ roomOrder = <<FirstStream>>
    /\ notificationQueue = EmptyMap
    /\ tasks = EmptyBag
    /\ timers = EmptyMap
    /\ auths = [s \in Sockets |-> IF s \in Viewers THEN 1 ELSE 0]
    /\ nextId = 1
    /\ dbViewerCount = [s \in Streams |-> IF s = FirstStream THEN NumViewers ELSE 0]
    /\ dbOnline = [u \in Users |-> u \in {UserOf(s) : s \in Viewers}]
    /\ dbBanned = [u \in Users |-> FALSE]
    /\ isStreamer = [u \in Users |-> FALSE]
    /\ followers = [u \in Users |-> {}]
    /\ lastCountUpdate = [s \in Streams |-> IF s = FirstStream THEN NumViewers ELSE -1]
    /\ unannounced = {}
    /\ writeFailed = FALSE
    /\ channelLog = [u \in Users |-> <<>>]
    /\ offlineLog = [u \in Users |-> 0]
    /\ sinceClose = [u \in Users |-> OfflineDelay]
    /\ chatLog = {}
    /\ errorLog = {}
    /\ activeStreams = EmptyMap
    /\ dbStreams = [k \in StreamKeys |-> <<>>]
    /\ now = 0
    /\ signalLog = <<>>
    /\ ioEvents = {}
    /\ lastJoined = NoJoin

NextChat ==
    \/ \E s \in Sockets : Connect(s)
    \/ \E s \in Sockets, r \in Streams, x \in Texts :
          Received < MaxChats /\ ChatMessage(s, r, x)
    \/ \E u \in Users : BanUser(u)
    \/ \E t \in TaskSet, ok \in BOOLEAN : ChatFindSettles(t, ok)
    \/ \E t \in TaskSet, ok \in BOOLEAN : MentionFindSettles(t, ok)
    \/ \E t \in TaskSet, ok \in BOOLEAN : BanUpdateSettles(t, ok)

SpecChat == InitChat /\ [][NextChat]_vars

\* C9: a chat-message sent by a connection whose user record is chat-banned
\* when the event is handled leads to no new-message event to any connection,
\* whichever handler of chat-message emits it.
BannedSenderNeverBroadcast == \A m \in chatLog : m.banned => m.to = {}

\* C10: a chat-message whose text is empty after trimming or longer than 500
\* characters leads to no new-message event to any connection.
InvalidTextNeverBroadcast ==
    \A m \in chatLog : Validate(m.text) # "ok" => m.to = {}

\* ------------------------------------------------------------ SpecStreaming
\* The stream lifecycle under ingestion signals for the first user's key and
\* for the key nobody holds.  No socket has connected; the first user streams
\* and is followed by every other user.
SignalKeys == {KeyOf(UserOf(1)), UnknownKey}

NextStreaming ==
    \/ Advance
    \/ \E k \in SignalKeys : StreamStart(k)
    \/ \E k \in SignalKeys : StreamEnd(k)
    \/ \E t \in TaskSet, ok \in BOOLEAN : StartUserSettles(t, ok)
    \/ \E t \in TaskSet, ok \in BOOLEAN : StartFindSettles(t, ok)
    \/ \E t \in TaskSet, ok \in BOOLEAN : StartSaveSettles(t, ok)
    \/ \E t \in TaskSet, ok \in BOOLEAN : EndFindSettles(t, ok)
    \/ \E t \in TaskSet, ok \in BOOLEAN : EndSaveSettles(t, ok)

SpecStreaming == InitPresence /\ [][NextStreaming]_vars

\* All handleStreamStart and handleStreamEnd calls have finished.
StreamingSettled == \A t \in TaskSet : t.kind \notin {"start", "end"}

\* A stream_started notification about the streamer has reached the user's
\* personal channel or queue.
ToldStreamStarted(userId, streamerId) ==
    \/ \E i \in 1..Len(channelLog[userId]) :
          /\ channelLog[userId][i].n.type = "stream_started"
          /\ channelLog[userId][i].n.about = streamerId
    \/ \E i \in 1..Len(PendingOf(notificationQueue, userId)) :
          /\ notificationQueue[userId][i].type = "stream_started"
          /\ notificationQueue[userId][i].about = streamerId

\* C12: once handleStreamStart has made the stream entity of key K live (with
\* startedAt set) and recorded its session, every follower of K's streamer
\* has a stream_started notification (emitted or queued) and a
\* new-live-stream event for the entity has been emitted.
StreamStartAnnounced ==
    \A k \in DOMAIN activeStreams :
        LET id == activeStreams[k].streamId
        IN /\ dbStreams[k][id[2]].startedAt >= 0
           /\ \A f \in followers[StreamerOf(k)] :
                 ToldStreamStarted(f, StreamerOf(k))
           /\ [event |-> "new-live-stream", streamId |-> id] \in ioEvents

\* Everything but the record of the signals handled.
effectVars ==
    <<sock, ioRooms, userSockets, connectedUsers, streamRooms, roomOrder,
      notificationQueue, tasks, timers, auths, nextId, dbViewerCount, dbOnline,
      dbBanned, isStreamer, followers, lastCountUpdate, unannounced, writeFailed,
      channelLog, offlineLog, sinceClose, chatLog, errorLog, activeStreams,
      dbStreams, now, ioEvents>>

\* The step handles a donePublish for a key that has no active session.
StopWithoutSession ==
    /\ Len(signalLog') = Len(signalLog) + 1
    /\ signalLog'[Len(signalLog')].kind = "stop"
    /\ ~signalLog'[Len(signalLog')].active

\* C13: an ingestion-stop signal for a streamKey with no active session
\* changes nothing: no stream entity, no session, no handler left suspended,
\* no event or error to any connection.
StopWithoutSessionIsNoOp ==
    [][StopWithoutSession => UNCHANGED effectVars]_vars

\* A stop signal was handled for a key with no active session.
StopSeenWithoutSession ==
    \E i \in 1..Len(signalLog) :
        signalLog[i].kind = "stop" /\ ~signalLog[i].active

\* The key has no stream entity and no session, its handlers are all at the
\* user lookup, and nothing has been emitted or queued.
NothingFor(k) ==
    /\ dbStreams[k] = <<>>
    /\ ~MapHas(activeStreams, k)
    /\ \A t \in TaskSet : t.streamKey = k => t.pc = "start_user"
    /\ ioEvents = {}
    /\ notificationQueue = EmptyMap
    /\ \A u \in Users : channelLog[u] = <<>>

\* The step puts one more handler for the key in flight.
HandlerAdded(k) ==
    \E t \in BagToSet(tasks') :
        t.streamKey = k /\ CopiesIn(t, tasks') > CopiesIn(t, tasks)

\* C14: an ingestion-start signal whose streamKey resolves to no user is
\* dropped at the user lookup: the key never gets a stream entity or an
\* active session, its handler never gets past the lookup, nothing is emitted
\* or queued, and a handler for the key starts only when a signal arrives
\* (no retry).
UnknownKeyDropped ==
    /\ [](\A k \in StreamKeys : StreamerOf(k) = 0 => NothingFor(k))
    /\ [][\A k \in StreamKeys :
             (StreamerOf(k) = 0 /\ HandlerAdded(k)) =>
                 Len(signalLog') = Len(signalLog) + 1]_vars

\* A start signal for the unknown key was handled and its handler has ended.
UnknownKeyStartHandled ==
    /\ \E i \in 1..Len(signalLog) :
          signalLog[i].kind = "start" /\ signalLog[i].key = UnknownKey
    /\ \A t \in TaskSet : t.streamKey # UnknownKey

\* C15: once handleStreamEnd has persisted the entity of K's session as not
\* live with endedAt and duration, a stream-ended event for that entity has
\* been emitted to its room.
StreamEndAnnounced ==
    \A k \in StreamKeys :
        \A i \in 1..Len(dbStreams[k]) :
            dbStreams[k][i].endedAt >= 0 =>
                [event |-> "stream-ended", streamId |-> <<k, i>>] \in ioEvents

\* C16: when a start for a valid key K was followed by a stop for K, all
\* handlers have finished and no database call failed, K's entity is not live
\* and K has no active session.
StartThenStopEnds ==
    \A k \in StreamKeys :
        (/\ StreamerOf(k) # 0
         /\ StreamingSettled
         /\ ~writeFailed
         /\ Len(signalLog) = 2
         /\ signalLog[1].kind = "start" /\ signalLog[1].key = k
         /\ signalLog[2].kind = "stop" /\ signalLog[2].key = k)
            => /\ ~MapHas(activeStreams, k)
               /\ \A i \in 1..Len(dbStreams[k]) : ~dbStreams[k][i].isLive

\* ----------------------------------------------------------- SpecMembership
\* Room membership from the first connection on: the first NumViewers sockets
\* connect, authenticate at most once (socket i as user UserOf(i)), join
\* rooms and disconnect.  Nobody streams or follows.
NextMembership ==
    \/ \E s \in Viewers : Connect(s)
    \/ \E s \in Viewers :
          auths[s] = 0 /\ Authenticate(s, UserOf(s), NameOf(s))
    \/ \E s \in Viewers, r \in Streams : JoinStream(s, r)
    \/ \E s \in Viewers : Disconnect(s)
    \/ \E t \in TaskSet, ok \in BOOLEAN : AuthUpdateSettles(t, ok)
    \/ \E t \in TaskSet, ok \in BOOLEAN : AuthFindSettles(t, ok)
    \/ \E t \in TaskSet, ok \in BOOLEAN : JoinUpdateSettles(t, ok)
    \/ \E t \in TaskSet, ok \in BOOLEAN : DiscUpdateSettles(t, ok)

SpecMembership == InitNotify /\ [][NextMembership]_vars

\* C17: every connection that is a member of a stream room (under either
\* join-stream handler, and in streamRooms at every step of the disconnect
\* loop) or of a personal channel has an associated user in the registry.
MembersAreAuthenticated ==
    /\ \A r \in RoomNames : \A s \in ioRooms[r] : MapHas(userSockets, s)
    /\ \A r \in DOMAIN streamRooms :
          \A s \in streamRooms[r] : MapHas(userSockets, s)

\* ------------------------------------------------- repeated join and leave
\* The step starts a leave-stream handler: task t is new among the suspended
\* handlers.
LeaveStarts(t) ==
    /\ t.pc = "leave_update"
    /\ CopiesIn(t, tasks') > CopiesIn(t, tasks)

\* The members of room streamId; none when the room was never created.
MembersOf(rooms, streamId) ==
    IF MapHas(rooms, streamId) THEN rooms[streamId] ELSE {}

\* C21: a join-stream by a connection that is already a member of the room
\* changes no member set and no room order, and the count its handler takes
\* (the one stream-joined carries) is the size of the member set, the same
\* as after the first join.
RejoinIsNoOp ==
    [][\A t \in BagToSet(tasks') :
          (JoinStarts(t) /\ t.sock \in MembersOf(streamRooms, t.streamId)) =>
              /\ streamRooms' = streamRooms
              /\ roomOrder' = roomOrder
              /\ t.viewerCount = Cardinality(streamRooms[t.streamId])]_vars

\* One connection joined the same room twice with no leave in between: two
\* handlers of it are suspended with the same count and no count write of any
\* handler has settled yet.
JoinedTwice ==
    \E t \in TaskSet :
        /\ t.pc = "join_update"
        /\ CopiesIn(t, tasks) >= 2
        /\ t.sock \in MembersOf(streamRooms, t.streamId)
        /\ \A r \in Streams : lastCountUpdate[r] = -1
        /\ unannounced = {}

DisconnectFinished(s) ==
    /\ sock[s] = "closed"
    /\ \A t \in TaskSet : ~(t.kind = "disc" /\ t.sock = s)

\* C23: once the disconnect handler of a connection has finished, the
\* connection is a member of no stream room and neither registry map still
\* refers to it.
DisconnectedIsForgotten ==
    \A s \in Sockets :
        DisconnectFinished(s) =>
            /\ \A r \in DOMAIN streamRooms : s \notin streamRooms[r]
            /\ ~MapHas(userSockets, s)
            /\ \A u \in DOMAIN connectedUsers : connectedUsers[u] # s

\* ------------------------------------------------------ presence broadcasts
\* The step ends authenticate handler t by sending a notification.
OnlineSent(t) ==
    /\ t.pc = "auth_find"
    /\ CopiesIn(t, tasks') < CopiesIn(t, tasks)
    /\ \/ notificationQueue' # notificationQueue
       \/ channelLog' # channelLog

\* C24: user_online is sent for a streamer only by the authenticate that took
\* the user from no connection to one; an authenticate that arrives while the
\* user already has a connection sends none.
OnlineOnlyFromZeroToOne ==
    [][\A t \in TaskSet :
          OnlineSent(t) => (isStreamer[t.userId] /\ ~t.online)]_vars

\* --------------------------------------------------------------- SpecOffline
\* Two connections, one per user; the first user is a streamer nobody follows.
InitOffline ==
    /\ Init
    /\ isStreamer = [u \in Users |-> u = UserOf(1)]
    /\ followers = [u \in Users |-> {}]

NextOffline ==
    \/ \E s \in Viewers : Connect(s)
    \/ \E s \in Viewers : auths[s] = 0 /\ Authenticate(s, UserOf(s), NameOf(s))
    \/ \E s \in Viewers : Disconnect(s)
    \/ Tick
    \/ \E s \in Viewers : TimerFires(s)
    \/ \E t \in TaskSet, ok \in BOOLEAN : AuthUpdateSettles(t, ok)
    \/ \E t \in TaskSet, ok \in BOOLEAN : AuthFindSettles(t, ok)
    \/ \E t \in TaskSet, ok \in BOOLEAN : OffUpdateSettles(t, ok)
    \/ \E t \in TaskSet, ok \in BOOLEAN : OffFindSettles(t, ok)

SpecOffline == InitOffline /\ [][NextOffline]_vars

\* The notifications user u has been sent or has waiting in the queue.
NotifiedOf(u) ==
    {channelLog[u][i].n : i \in 1..Len(channelLog[u])}
        \cup (IF MapHas(notificationQueue, u)
              THEN {notificationQueue[u][i] : i \in 1..Len(notificationQueue[u])}
              ELSE {})

\* C25: a user_offline about U is produced only if U is a streamer, and only
\* followers of U are sent it.
OfflineOnlyToFollowers ==
    \A u \in Users : \A n \in NotifiedOf(u) :
        n.type = "user_offline" =>
            (isStreamer[n.about] /\ u \in followers[n.about])

\* ------------------------------------------------------ system announcement
\* The sockets an io.emit reaches: the connections open at that moment.
OpenSockets == {s \in Sockets : sock[s] = "open"}

\* The 'system-announcement' event as emitted to the set `to` of sockets.
Announcement(to) == [event |-> "system-announcement", to |-> to]

\* A sendSystemAnnouncement that also stores the announcement for every user
\* without a connection, as sendNotificationToUser would.
SendSystemAnnouncementStored ==
    /\ ioEvents' = ioEvents \cup {Announcement(OpenSockets)}
    /\ notificationQueue' =
           QueueAfterSend(notificationQueue, Users,
                          Notification("system_announcement", 0, 0))
    /\ lastJoined' = NoJoin
    /\ UNCHANGED <<sock, ioRooms, registryVars, roomVars, tasks, timers, auths,
                   channelLog, nextId, countVars, presenceVars, chatVars,
                   userVars, activeStreams, dbStreams, now, signalLog,
                   writeFailed>>

\* sendSystemAnnouncement(message, type): one io.emit, nothing else.
SendSystemAnnouncement ==
    /\ ioEvents' = ioEvents \cup {Announcement(OpenSockets)}
    /\ lastJoined' = NoJoin
    /\ UNCHANGED <<sock, ioRooms, registryVars, roomVars, tasks, timers, auths,
                   notifyVars, countVars, presenceVars, chatVars, userVars,
                   activeStreams, dbStreams, now, signalLog, writeFailed>>

\* One connection per user, the first user a streamer the others follow (so
\* user_online notifications fill the queues), and announcements.
NextAnnounce ==
    \/ \E s \in Viewers : Connect(s)
    \/ \E s \in Viewers : auths[s] = 0 /\ Authenticate(s, UserOf(s), NameOf(s))
    \/ \E s \in Viewers : Disconnect(s)
    \/ SendSystemAnnouncement
    \/ \E t \in TaskSet, ok \in BOOLEAN : AuthUpdateSettles(t, ok)
    \/ \E t \in TaskSet, ok \in BOOLEAN : AuthFindSettles(t, ok)

SpecAnnounce == InitPresence /\ [][NextAnnounce]_vars

\* C26: a system announcement goes to exactly the connections open when it
\* is emitted and to no queue: the step that emits it leaves every queue and
\* every personal channel as it was, and no user ever has an announcement
\* waiting in the queue or delivered by a later flush.
AnnouncementNeverQueued ==
    /\ [](\A u \in Users : \A n \in NotifiedOf(u) :
             n.type # "system_announcement")
    /\ [][\A to \in SUBSET Sockets :
             (Announcement(to) \in ioEvents' \ ioEvents) =>
                 /\ to = OpenSockets
                 /\ notificationQueue' = notificationQueue
                 /\ channelLog' = channelLog]_vars

\* An announcement went out while only the first connection was open; the
\* second user connected later and was flushed its queued notifications.
AnnouncedBeforeFlush ==
    /\ Announcement({1}) \in ioEvents
    /\ sock[2] = "open"
    /\ \E i \in 1..Len(channelLog[UserOf(2)]) :
          channelLog[UserOf(2)][i].via = "flush"

\* --------------------------------------------------- joins and the lifecycle
\* The document of the stream exists and handleStreamEnd has ended it.
Ended(streamId) ==
    LET docs == dbStreams[DocOf(streamId)[1]]
        i == DocOf(streamId)[2]
    IN /\ Len(docs) >= i
       /\ ~docs[i].isLive
       /\ docs[i].endedAt >= 0

\* Authenticated viewers join the room of the first user's stream while the
\* media server starts and stops that stream.
NextEnded ==
    \/ \E s \in Viewers : JoinStream(s, FirstStream)
    \/ \E t \in TaskSet, ok \in BOOLEAN : JoinUpdateSettles(t, ok)
    \/ StreamStart(KeyOf(OwnerOf(FirstStream)))
    \/ StreamEnd(KeyOf(OwnerOf(FirstStream)))
    \/ \E t \in TaskSet, ok \in BOOLEAN : StartUserSettles(t, ok)
    \/ \E t \in TaskSet, ok \in BOOLEAN : StartFindSettles(t, ok)
    \/ \E t \in TaskSet, ok \in BOOLEAN : StartSaveSettles(t, ok)
    \/ \E t \in TaskSet, ok \in BOOLEAN : EndFindSettles(t, ok)
    \/ \E t \in TaskSet, ok \in BOOLEAN : EndSaveSettles(t, ok)

SpecEnded == InitRooms /\ [][NextEnded]_vars

\* C27: once the stream of a room has ended, no join-stream adds a connection
\* to the room's member set.
NoJoinAfterEnded ==
    [][\A r \in Streams :
          Ended(r) => MembersOf(streamRooms', r) \subseteq MembersOf(streamRooms, r)]_vars

\* -------------------------------------------------------------- SpecMention
\* The viewers chat in the room of the first user's stream, whose document
\* the media server's start signal creates; the stream's owner may open and
\* close a further connection.
NextMention ==
    \/ StreamStart(KeyOf(OwnerOf(FirstStream)))
    \/ \E t \in TaskSet, ok \in BOOLEAN : StartUserSettles(t, ok)
    \/ \E t \in TaskSet, ok \in BOOLEAN : StartFindSettles(t, ok)
    \/ \E t \in TaskSet, ok \in BOOLEAN : StartSaveSettles(t, ok)
    \/ \E s \in Sockets \ Viewers : Connect(s)
    \/ \E s \in Sockets \ Viewers :
          /\ auths[s] = 0
          /\ Authenticate(s, OwnerOf(FirstStream), NameOf(s))
    \/ \E s \in Sockets \ Viewers : Disconnect(s)
    \/ \E t \in TaskSet, ok \in BOOLEAN : AuthUpdateSettles(t, ok)
    \/ \E t \in TaskSet, ok \in BOOLEAN : AuthFindSettles(t, ok)
    \/ \E s \in Viewers, x \in Texts :
          Received < MaxChats /\ ChatMessage(s, FirstStream, x)
    \/ \E t \in TaskSet, ok \in BOOLEAN : ChatFindSettles(t, ok)
    \/ \E t \in TaskSet, ok \in BOOLEAN : MentionFindSettles(t, ok)

SpecMention == InitChat /\ [][NextMention]_vars

\* The step resumes notifyStreamerMention for task t after its stream lookup.
MentionResumes(t) ==
    /\ t.pc = "mention_find"
    /\ CopiesIn(t, tasks') < CopiesIn(t, tasks)

\* C28: an accepted chat message with the mention marker gives the streamer
\* of its stream exactly one chat_mention (when the stream lookup succeeds):
\* sent at once if the streamer has a connection, queued otherwise; and a
\* chat_mention exists only for an accepted message that carries the marker.
MentionReachesStreamer ==
    /\ [](\A u \in Users : \A n \in NotifiedOf(u) :
             n.type = "chat_mention" =>
                 \E m \in chatLog :
                     /\ m.via = "NotificationService"
                     /\ Includes(m.text)
                     /\ OwnerOf(m.streamId) = u)
    /\ [][\A t \in TaskSet :
             (MentionResumes(t) /\ ~writeFailed' /\ StreamExists(t.streamId)) =>
                 LET u == OwnerOf(t.streamId)
                 IN IF ConnectionsOf(u) # {}
                    THEN /\ Len(channelLog'[u]) = Len(channelLog[u]) + 1
                         /\ notificationQueue' = notificationQueue
                    ELSE /\ Len(PendingOf(notificationQueue', u)) =
                                Len(PendingOf(notificationQueue, u)) + 1
                         /\ channelLog' = channelLog]_vars

\* ------------------------------------------------------------ offline timers
\* The pending offline timers of user u (timers are kept per closed socket).
TimersOf(u) == {s \in DOMAIN timers : timers[s].userId = u}

\* C29: a user has at most one pending offline timer, and no timer stays
\* pending once its user has authenticated again.
OneTimerCancelledOnReauth ==
    /\ \A u \in Users : Cardinality(TimersOf(u)) <= 1
    /\ \A s \in DOMAIN timers : ~timers[s].reauth

\* C30: a presence handler suspended on its isOnline write goes on to the
\* follower notification when the write settles, whether it succeeded or
\* failed: authenticate to the user_online step, the offline timer to the
\* user_offline step.
PresenceSurvivesWriteFailure ==
    [][\A t \in TaskSet :
          (/\ t.pc \in {"auth_update", "off_update"}
           /\ CopiesIn(t, tasks') < CopiesIn(t, tasks)) =>
              LET n == [t EXCEPT !.pc = IF t.pc = "auth_update"
                                        THEN "auth_find" ELSE "off_find"]
              IN CopiesIn(n, tasks') > CopiesIn(n, tasks)]_vars

\* --------------------------------------------------------------- SpecCascade
\* The connection whose handlers SpecCascade follows.
Leaver == 1

\* One authenticated connection joins any room, leaves any room but the first
\* stream's, and disconnects; every count write may fail.
NextCascade ==
    \/ \E r \in Streams : JoinStream(Leaver, r)
    \/ \E r \in Streams \ {FirstStream} : LeaveStream(Leaver, r)
    \/ Disconnect(Leaver)
    \/ \E t \in TaskSet, ok \in BOOLEAN : JoinUpdateSettles(t, ok)
    \/ \E t \in TaskSet, ok \in BOOLEAN : LeaveUpdateSettles(t, ok)
    \/ \E t \in TaskSet, ok \in BOOLEAN : DiscUpdateSettles(t, ok)

SpecCascade == InitRooms /\ [][NextCascade]_vars

\* The step resumes handler t after its awaited viewer-count write.
CountWriteSettles(t) ==
    /\ t.pc \in {"join_update", "leave_update", "disc_update"}
    /\ CopiesIn(t, tasks') < CopiesIn(t, tasks)

\* C31: whether the count write of a join, leave or disconnect succeeds or
\* fails, the member sets keep the change the handler made; the disconnect
\* loop goes on to the connection's next room or, after the last one, sets
\* the offline timer; and a connection whose disconnect handler has finished
\* is in no room and has its timer set.
CascadeSurvivesWriteFailure ==
    /\ [](\A s \in Sockets :
             (DisconnectFinished(s) /\ auths[s] > 0) =>
                 /\ \A r \in DOMAIN streamRooms : s \notin streamRooms[r]
                 /\ MapHas(timers, s))
    /\ [][\A t \in TaskSet :
             CountWriteSettles(t) =>
                 IF t.pc # "disc_update" THEN streamRooms' = streamRooms
                 ELSE LET i == NextRoomIdx(t.sock, t.idx + 1)
                      IN /\ t.sock \notin streamRooms'[t.streamId]
                         /\ IF i = 0
                            THEN /\ MapHas(timers', t.sock)
                                 /\ streamRooms' = streamRooms
                            ELSE /\ t.sock \notin streamRooms'[roomOrder[i]]
                                 /\ \E n \in BagToSet(tasks') :
                                       /\ n.pc = "disc_update"
                                       /\ n.sock = t.sock
                                       /\ n.idx = i]_vars

\* The connection joined the first stream's room (which it never leaves by
\* leave-stream) and a later one, then disconnected; no count write has
\* succeeded so far, so the write for the first room failed, and the loop has
\* gone on to the second room.
CascadeWentOnAfterFailure ==
    /\ sock[Leaver] = "closed"
    /\ Len(roomOrder) >= 2
    /\ roomOrder[1] = FirstStream
    /\ streamRooms[FirstStream] = {}
    /\ \A r \in Streams : lastCountUpdate[r] = -1
    /\ FirstStream \in unannounced
    /\ \E t \in TaskSet :
          t.pc = "disc_update" /\ t.sock = Leaver /\ t.idx = 2

\* ----------------------------------------------------------------- SpecOrder
MaxOrdered == 2

\* The valid chat texts without the mention marker.
ValidTexts == {x \in Texts : Validate(x) = "ok" /\ ~Includes(x)}

\* The viewers of the first stream's room send valid chat messages while the
\* clock runs; the awaited user lookups settle in any order.
NextOrder ==
    \/ \E s \in Viewers, x \in ValidTexts :
          Received < MaxOrdered /\ ChatMessage(s, FirstStream, x)
    \/ \E t \in TaskSet, ok \in BOOLEAN : ChatFindSettles(t, ok)
    \/ Advance

SpecOrder == InitChat /\ [][NextOrder]_vars

\* The new-message events broadcast by the NotificationService handler.
Accepted == {m \in chatLog : m.via = "NotificationService"}

\* C32: within one room, accepted chat messages are broadcast in the order in
\* which their chat-message events were received.
BroadcastInReceiveOrder ==
    \A m1, m2 \in Accepted :
        (m1.streamId = m2.streamId /\ m1.seq < m2.seq) => m1.order < m2.order

\* C33: the ids of broadcast chat messages are strictly increasing in creation
\* order, so no two accepted messages carry the same id.
ChatIdsStrictlyIncrease ==
    \A m1, m2 \in Accepted : m1.order < m2.order => m1.id < m2.id

\* ------------------------------------------------------- persisted presence
\* No authenticate handler, offline-timer callback or pending timer of user u
\* is left.
PresenceSettled(u) ==
    /\ \A t \in TaskSet : t.userId # u
    /\ TimersOf(u) = {}

\* C34: once every handler and timer of a user has finished and no write has
\* failed, the persisted isOnline flag is true exactly when the user has an
\* open authenticated connection.
PersistedOnlineMatches ==
    \A u \in Users :
        (PresenceSettled(u) /\ ~writeFailed) =>
            (dbOnline[u] <=> ConnectionsOf(u) # {})

\* ------------------------------------------------------ ending and the rooms
\* The viewers are in the room of the first stream; its streamer starts and
\* stops publishing while one viewer leaves or disconnects, and nobody joins.
NextTeardown ==
    \/ StreamStart(KeyOf(OwnerOf(FirstStream)))
    \/ StreamEnd(KeyOf(OwnerOf(FirstStream)))
    \/ \E t \in TaskSet, ok \in BOOLEAN : StartUserSettles(t, ok)
    \/ \E t \in TaskSet, ok \in BOOLEAN : StartFindSettles(t, ok)
    \/ \E t \in TaskSet, ok \in BOOLEAN : StartSaveSettles(t, ok)
    \/ \E t \in TaskSet, ok \in BOOLEAN : EndFindSettles(t, ok)
    \/ \E t \in TaskSet, ok \in BOOLEAN : EndSaveSettles(t, ok)
    \/ EndStreamRoute(DocOf(FirstStream)[1], DocOf(FirstStream)[2])
    \/ \E t \in TaskSet, ok \in BOOLEAN : RouteSaveSettles(t, ok)
    \/ NotifyStreamEnded(DocOf(FirstStream)[1], DocOf(FirstStream)[2])
    \/ LeaveStream(Leaver, FirstStream)
    \/ Disconnect(Leaver)
    \/ \E t \in TaskSet, ok \in BOOLEAN : LeaveUpdateSettles(t, ok)
    \/ \E t \in TaskSet, ok \in BOOLEAN : DiscUpdateSettles(t, ok)

SpecTeardown == InitChat /\ [][NextTeardown]_vars

\* A step of the ending: a stop signal is handled, a continuation of
\* handleStreamEnd or of the end route resumes, the end route is called, or
\* stream-ended is emitted.
EndingStep ==
    \/ /\ Len(signalLog') = Len(signalLog) + 1
       /\ signalLog'[Len(signalLog')].kind = "stop"
    \/ \E t \in TaskSet :
          t.kind \in {"end", "route"} /\ CopiesIn(t, tasks') < CopiesIn(t, tasks)
    \/ \E t \in BagToSet(tasks') :
          t.kind = "route" /\ CopiesIn(t, tasks') > CopiesIn(t, tasks)
    \/ ioEvents' # ioEvents

\* C35: a step of the ending (the stop signal, the end route, the
\* continuations up to the save that makes the stream Ended, the stream-ended
\* event) leaves the room members and the connection registry as they were:
\* no connection is removed from a room and none is closed.
EndingKeepsRooms ==
    [][EndingStep =>
          UNCHANGED <<sock, ioRooms, userSockets, connectedUsers, streamRooms,
                      roomOrder>>]_vars

EndedWithFullRoom ==
    /\ Ended(FirstStream)
    /\ streamRooms[FirstStream] = Viewers
    /\ ioRooms[<<"stream_", FirstStream>>] = Viewers
    /\ \A s \in Viewers : sock[s] = "open" /\ MapHas(userSockets, s)
    /\ \E e \in ioEvents : e.event = "stream-ended"

\* ------------------------------------------------------ the two registry maps
\* C36: connectedUsers and userSockets agree: every entry userId -> socketId
\* of connectedUsers has an entry of userSockets for that socket with that
\* userId, and the userId of every entry of userSockets has an entry in
\* connectedUsers.
RegistryMapsAgree ==
    /\ \A u \in DOMAIN connectedUsers :
          /\ MapHas(userSockets, connectedUsers[u])
          /\ userSockets[connectedUsers[u]].userId = u
    /\ \A s \in DOMAIN userSockets :
          MapHas(connectedUsers, userSockets[s].userId)

\* ------------------------------------------------- a failed authentication
\* The authenticate handler of t ends in its catch block: the awaited
\* isOnline write is rejected and authentication_error is emitted.
AuthenticationError(t) ==
    /\ t.pc = "auth_update"
    /\ tasks' = Retire(t)

\* C37: when authenticate ends with authentication_error, the connection is
\* not registered: it has no entry in userSockets and connectedUsers does not
\* point to it.
FailedAuthNotRegistered ==
    [][\A t \in TaskSet :
          AuthenticationError(t) =>
              /\ ~MapHas(userSockets', t.sock)
              /\ \A u \in DOMAIN connectedUsers' : connectedUsers'[u] # t.sock]_vars

\* ------------------------------------------- sessions and live documents
\* One streamer starts and stops publishing and ends streams over HTTP.
NextLifecycle ==
    \/ Advance
    \/ StreamStart(KeyOf(UserOf(1)))
    \/ StreamEnd(KeyOf(UserOf(1)))
    \/ \E t \in TaskSet, ok \in BOOLEAN : StartUserSettles(t, ok)
    \/ \E t \in TaskSet, ok \in BOOLEAN : StartFindSettles(t, ok)
    \/ \E t \in TaskSet, ok \in BOOLEAN : StartSaveSettles(t, ok)
    \/ \E t \in TaskSet, ok \in BOOLEAN : EndFindSettles(t, ok)
    \/ \E t \in TaskSet, ok \in BOOLEAN : EndSaveSettles(t, ok)
    \/ \E i \in 1..MaxDocs : EndStreamRoute(KeyOf(UserOf(1)), i)
    \/ \E t \in TaskSet, ok \in BOOLEAN : RouteSaveSettles(t, ok)

SpecLifecycle == InitPresence /\ [][NextLifecycle]_vars

\* No handleStreamStart, handleStreamEnd or end-route handler is suspended.
LifecycleIdle ==
    \A t \in TaskSet : t.kind \notin {"start", "end", "route"}

\* C38: when no lifecycle handler is in progress, a streamKey has an entry in
\* activeStreams exactly when the stream document recorded for it is live:
\* the document of an entry is live, and a key without entry has no live
\* document.
SessionsMatchLiveDocs ==
    LifecycleIdle =>
        \A k \in StreamKeys :
            IF MapHas(activeStreams, k)
            THEN /\ activeStreams[k].streamId[2] \in 1..Len(dbStreams[k])
                 /\ dbStreams[k][activeStreams[k].streamId[2]].isLive
            ELSE \A i \in 1..Len(dbStreams[k]) : ~dbStreams[k][i].isLive

====
